---- MODULE Spec2Model ----
(***************************************************************************)
(* Crawl-ingestion pipeline of instalily-case-backend/ingestion:           *)
(* the URL canonicalizer and scope filter (parser.py), the Frontier Store  *)
(* (store.py) and the worker pool / run coordinator (service.py).          *)
(*                                                                         *)
(* Strings the code inspects character by character (URLs) are sequences   *)
(* of tokens: "https://www.partselect.com/Models/M1" is                    *)
(* <<"https:", "/", "/", "www.partselect.com", "/", "Models", "/", "M1">>. *)
(* A token stands for the run of characters it spells; prefix, substring   *)
(* and replace are computed on tokens as the code computes them on         *)
(* characters.                                                             *)
(***************************************************************************)
EXTENDS Integers, Sequences, FiniteSets, TLC

VARIABLES
  frontier,   \* table crawl_frontier: url_canonical -> row
  locks,      \* row locks held by open claim transactions: connection -> url_canonical or <<>>
  clock,      \* the database's now(): one tick per writing statement
  calls,      \* claim_next calls issued on separate connections: connection -> call state
  batch,      \* the last group of concurrently issued claim_next calls
  last,       \* the last store operation: its arguments, the table before it, its result
  phase,      \* IngestionService.run / run_ingestion: position of the coordinator
  seedIdx,    \* index of the next seed of cfg.seed_urls to enqueue
  workers,    \* IngestionService.worker tasks: worker -> local variables and position
  fetched,    \* CrawlStats.fetched
  deadline,   \* time.monotonic() >= end_time
  pages,      \* table crawled_pages: url_canonical -> status
  run,        \* run_id of the current pipeline invocation (the n-th uuid4 drawn)
  requeue,    \* cfg.requeue_seeds_on_start of the current invocation
  crawl_runs, \* table crawl_runs: run_id -> status, and how often end_run closed it
  linked,     \* for each parsed page, the in-scope URLs its markdown links to
  arun,       \* crawl_best: what crawler.arun does for each strategy of one call
  fetch,      \* crawl_best: loop index, best so far, strategies run, returned
  entities,   \* tables models, parts, model_parts, model_symptoms, model_media, model_qa
  persisted,  \* the last two persist_parsed_page calls: arguments, the tables before the last
  applied,    \* the last call of a function without side effects: name, argument, result
  agent       \* MainAgent.run_stream: its local variables, its position, what it has emitted

vars == <<frontier, locks, clock, calls, batch, last, phase, seedIdx, workers, fetched,
          deadline, pages, run, requeue, crawl_runs, linked, arun, fetch, entities, persisted,
          applied, agent>>

----------------------------------------------------------------------------
(* Token sequences.                                                        *)

StartsWith(s, p) ==
  Len(p) <= Len(s) /\ SubSeq(s, 1, Len(p)) = p

Contains(s, p) ==
  \E i \in 1..(Len(s) - Len(p) + 1) : SubSeq(s, i, i + Len(p) - 1) = p

\* str.replace(p, ""): every non-overlapping occurrence of p, left to right.
RECURSIVE RemoveAll(_, _)
RemoveAll(s, p) ==
  IF s = <<>> \/ p = <<>> THEN s
  ELSE IF StartsWith(s, p) THEN RemoveAll(SubSeq(s, Len(p) + 1, Len(s)), p)
  ELSE <<Head(s)>> \o RemoveAll(Tail(s), p)

\* str.strip(): leading and trailing whitespace removed.
RECURSIVE Strip(_)
Strip(s) ==
  IF s = <<>> THEN s
  ELSE IF Head(s) = " " THEN Strip(Tail(s))
  ELSE IF s[Len(s)] = " " THEN Strip(SubSeq(s, 1, Len(s) - 1))
  ELSE s

\* str.lower() on the tokens that carry upper-case letters in a host.
LowerTok(t) ==
  CASE t = "PartSelect.com" -> "partselect.com"
    [] t = "WWW.PARTSELECT.COM" -> "www.partselect.com"
    [] OTHER -> t

Lower(s) == [i \in 1..Len(s) |-> LowerTok(s[i])]

\* Length of the longest prefix of s holding no token of stop.
RECURSIVE PrefixLen(_, _)
PrefixLen(s, stop) ==
  IF s = <<>> \/ Head(s) \in stop THEN 0 ELSE 1 + PrefixLen(Tail(s), stop)

\* re.sub(r"/{2,}", "/", path)
RECURSIVE CollapseSlashes(_)
CollapseSlashes(s) ==
  IF Len(s) < 2 THEN s
  ELSE IF s[1] = "/" /\ s[2] = "/" THEN CollapseSlashes(Tail(s))
  ELSE <<Head(s)>> \o CollapseSlashes(Tail(s))

\* str.split(sep)
RECURSIVE Split(_, _)
Split(s, sep) ==
  LET n == PrefixLen(s, {sep}) IN
  IF n = Len(s) THEN <<s>>
  ELSE <<SubSeq(s, 1, n)>> \o Split(SubSeq(s, n + 2, Len(s)), sep)

\* Index of the first occurrence of p in s, 0 when there is none.
Find(s, p) ==
  IF Contains(s, p)
  THEN CHOOSE i \in 1..(Len(s) - Len(p) + 1) :
         /\ SubSeq(s, i, i + Len(p) - 1) = p
         /\ \A j \in 1..(i - 1) : SubSeq(s, j, j + Len(p) - 1) # p
  ELSE 0

----------------------------------------------------------------------------
(* parser.py: canonicalize_url and is_core_url.                            *)

\* urllib.parse.urlparse: scheme, then "//" netloc, then the path up to "?" or "#".
UrlParse(raw) ==
  LET rest == IF raw # <<>> /\ Head(raw) \in {"https:", "http:"} THEN Tail(raw) ELSE raw
      hasNetloc == Len(rest) >= 2 /\ rest[1] = "/" /\ rest[2] = "/"
      after == IF hasNetloc THEN SubSeq(rest, 3, Len(rest)) ELSE rest
      n == IF hasNetloc THEN PrefixLen(after, {"/", "?", "#"}) ELSE 0
      tail == SubSeq(after, n + 1, Len(after))
  IN  [netloc |-> SubSeq(after, 1, n),
       path |-> SubSeq(tail, 1, PrefixLen(tail, {"?", "#"}))]

canonicalize_url(url) ==
  LET raw == Strip(url) IN
  IF raw = <<>> THEN <<>>
  ELSE
    LET parsed == UrlParse(raw)
        host0 == Lower(parsed.netloc)
        host == IF host0 = <<"partselect.com">> THEN <<"www.partselect.com">> ELSE host0
        path0 == CollapseSlashes(IF parsed.path = <<>> THEN <<"/">> ELSE parsed.path)
        path == IF path0 # <<"/">> /\ path0[Len(path0)] = "/"
                THEN SubSeq(path0, 1, Len(path0) - 1) ELSE path0
    IN  <<"https:", "/", "/">> \o host \o path

normalize_url(url) == canonicalize_url(url)

\* "https://www.partselect.com"
Site == <<"https:", "/", "/", "www.partselect.com">>

\* The tuple `allowed` of is_core_url.
allowed ==
  { <<"/", "Models", "/">>, <<"/", "PS">>,
    <<"/", "Dishwasher", "-", "Parts">>, <<"/", "Refrigerator", "-", "Parts">>,
    <<"/", "Washer", "-", "Parts">>, <<"/", "Dryer", "-", "Parts">>,
    <<"/", "Range", "-", "Parts">>, <<"/", "Microwave", "-", "Parts">>,
    <<"/", "Oven", "-", "Parts">>, <<"/", "Freezer", "-", "Parts">>,
    <<"/", "Ice", "-", "Machine", "-", "Parts">>,
    <<"/", "Trash", "-", "Compactor", "-", "Parts">>,
    <<"/", "Cooktop", "-", "Parts">>, <<"/", "Appliance", "-", "Parts">>,
    <<"/", "Repair", "/">>, <<"/", "Brands">>,
    <<"-", "Dishwasher", "-", "Parts">>, <<"-", "Refrigerator", "-", "Parts">>,
    <<"-", "Washer", "-", "Parts">>, <<"-", "Dryer", "-", "Parts">>,
    <<"-", "Range", "-", "Parts">>, <<"-", "Microwave", "-", "Parts">>,
    <<"-", "Oven", "-", "Parts">>, <<"-", "Freezer", "-", "Parts">>,
    <<"-", "Ice", "-", "Machine", "-", "Parts">>,
    <<"-", "Trash", "-", "Compactor", "-", "Parts">>,
    <<"-", "Cooktop", "-", "Parts">> }

\* Mutant: the prefix test without the slash that ends the host.
is_core_url_NoHostEnd(url) ==
  IF ~StartsWith(url, Site) THEN FALSE
  ELSE LET path == RemoveAll(url, Site)
       IN  \E a \in allowed : StartsWith(path, a) \/ Contains(path, a)

is_core_url(url) ==
  IF ~StartsWith(url, Site \o <<"/">>) THEN FALSE
  ELSE LET path == RemoveAll(url, Site)
       IN  \E a \in allowed : StartsWith(path, a) \/ Contains(path, a)

----------------------------------------------------------------------------
(* Bounds of the model and program constants.                              *)

MaxClock == 6            \* writing statements in one behaviour of the store specifications
MaxRunClock == 10        \* writing statements in one behaviour of the pipeline
MaxRuns == 2             \* pipeline invocations in one behaviour
NConns == 2              \* connections issuing claim_next concurrently
crawl_concurrency == 2   \* cfg.crawl_concurrency
max_pages == 2           \* cfg.max_pages
MaxLinks == 1            \* links read from one fetched page
ErrorLimit == 1000       \* error[:1000]
IdleLimit == 5           \* idle_ticks >= 5

Conns == 1..NConns
Workers == 1..crawl_concurrency

----------------------------------------------------------------------------
(* Values.                                                                 *)

\* SQL null / Python None in a text column.
Null == [null |-> TRUE, msg |-> "", len |-> 0]
\* A table without rows.
Empty == [k \in {} |-> Null]
\* A message of len characters.
Msg(m, n) == [null |-> FALSE, msg |-> m, len |-> n]
\* error[:1000]
Truncate(e) == [e EXCEPT !.len = IF @ > ErrorLimit THEN ErrorLimit ELSE @]

Errors == { Msg("timeout", 7), Msg("trace", ErrorLimit + 1) }

\* Inputs of enqueue: seeds, discovered links and their variants.
U_root == Site \o <<"/">>
U_dish == Site \o <<"/", "Dishwasher", "-", "Parts", ".htm">>
U_brands == Site \o <<"/", "Brands", "/">>
U_brand == Site \o <<"/", "Whirlpool", "-", "Parts", ".htm">>
U_model == Site \o <<"/", "Models", "/", "M1">>
U_messy == Site \o <<"/", "/", "Models", "/", "/", "M1", "/">>
U_apex == <<" ", "http:", "/", "/", "PartSelect.com", "/", "Models", "/", "M1", "?", "x">>
U_evil == Site \o <<".evil.com", "/", "Models", "/", "M1">>
U_about == Site \o <<"/", "about">>
U_bare == <<"/", "Models", "/", "M1">>
U_blank == <<" ">>
U_model2 == Site \o <<"/", "Models", "/", "m2", "/">>
U_part == Site \o <<"/", "PS", "1", "-", "Whirlpool", "-", "W10", "-", "Rack", ".htm">>
U_part2 == Site \o <<"/", "PS", "2", "-", "Rack", ".htm">>
U_part3 == Site \o <<"/", "PS", "2", ".htm">>
U_part1 == Site \o <<"/", "PS", "1", ".htm">>
U_partq == U_part \o <<"?", "SourceCode">>

----------------------------------------------------------------------------
(* store.py: the Frontier Store. Each operator is one SQL statement on the  *)
(* table f; now is the statement's now().                                  *)

Put(f, k, row) == [x \in DOMAIN f \cup {k} |-> IF x = k THEN row ELSE f[x]]

Keys(f, statuses) == {k \in DOMAIN f : f[k].status \in statuses}

\* The upsert with its non-forced `on conflict` branch given as keep (the statuses
\* left alone) and keepError (the statuses whose last_error is left alone).
UpsertWith(f, url_canonical, run_id, source_url, force_requeue, now, keep, keepError) ==
  IF url_canonical \notin DOMAIN f THEN
    Put(f, url_canonical,
        [status |-> "queued", attempts |-> 0, source_url |-> source_url,
         updated_at |-> now, last_run_id |-> run_id, last_error |-> Null])
  ELSE IF force_requeue THEN
    [f EXCEPT ![url_canonical] =
        [@ EXCEPT !.status = "queued", !.source_url = source_url, !.updated_at = now,
                  !.last_run_id = run_id, !.last_error = Null]]
  ELSE
    [f EXCEPT ![url_canonical] =
        [@ EXCEPT !.status = IF @ \in keep THEN @ ELSE "queued",
                  !.source_url = source_url, !.updated_at = now,
                  !.last_run_id = run_id,
                  !.last_error = IF f[url_canonical].status \in keepError THEN @ ELSE Null]]

\* Mutant: a rediscovered in-flight URL is queued again.
upsert_RequeuesProcessing(f, url_canonical, run_id, source_url, force_requeue, now) ==
  UpsertWith(f, url_canonical, run_id, source_url, force_requeue, now, {"done"}, {"done"})

\* Mutant: a rediscovered crawled URL is queued again.
upsert_RequeuesDone(f, url_canonical, run_id, source_url, force_requeue, now) ==
  UpsertWith(f, url_canonical, run_id, source_url, force_requeue, now, {"processing"}, {"done"})

\* Mutant: every rediscovered URL is queued again, whatever its status.
upsert_RequeuesAll(f, url_canonical, run_id, source_url, force_requeue, now) ==
  UpsertWith(f, url_canonical, run_id, source_url, force_requeue, now, {}, {})

\* Mutant: the error of a failed entry survives its re-queueing.
upsert_KeepsError(f, url_canonical, run_id, source_url, force_requeue, now) ==
  UpsertWith(f, url_canonical, run_id, source_url, force_requeue, now,
             {"done", "processing"}, {"done", "failed"})

upsert_frontier_queued(f, url_canonical, run_id, source_url, force_requeue, now) ==
  IF url_canonical \notin DOMAIN f THEN
    Put(f, url_canonical,
        [status |-> "queued", attempts |-> 0, source_url |-> source_url,
         updated_at |-> now, last_run_id |-> run_id, last_error |-> Null])
  ELSE IF force_requeue THEN
    [f EXCEPT ![url_canonical] =
        [@ EXCEPT !.status = "queued", !.source_url = source_url, !.updated_at = now,
                  !.last_run_id = run_id, !.last_error = Null]]
  ELSE
    [f EXCEPT ![url_canonical] =
        [@ EXCEPT !.status = IF @ \in {"done", "processing"} THEN @ ELSE "queued",
                  !.source_url = source_url, !.updated_at = now,
                  !.last_run_id = run_id,
                  !.last_error = IF f[url_canonical].status = "done" THEN @ ELSE Null]]

\* Mutant: only the failed entries are retried; entries stuck in processing stay.
reconcile_OnlyFailed(f, now) ==
  [k \in DOMAIN f |->
     IF f[k].status \in {"failed"}
     THEN [f[k] EXCEPT !.status = "queued", !.updated_at = now, !.last_error = Null]
     ELSE f[k]]

\* Mutant: only the entries stuck in processing are recovered.
reconcile_OnlyProcessing(f, now) ==
  [k \in DOMAIN f |->
     IF f[k].status \in {"processing"}
     THEN [f[k] EXCEPT !.status = "queued", !.updated_at = now, !.last_error = Null]
     ELSE f[k]]

reconcile_frontier_for_resume(f, now) ==
  [k \in DOMAIN f |->
     IF f[k].status \in {"processing", "failed"}
     THEN [f[k] EXCEPT !.status = "queued", !.updated_at = now, !.last_error = Null]
     ELSE f[k]]

\* cur.rowcount of the reconcile statement.
ReconcileRowcount(f) == Cardinality(Keys(f, {"processing", "failed"}))

\* Mutant: a plain select, without `for update skip locked`.
ClaimSelectRows_NoRowLock(f, locked) ==
  LET open == Keys(f, {"queued"})
  IN  {k \in open : \A j \in open : f[k].updated_at <= f[j].updated_at}

\* Mutant: the select passes over the rows that were claimed before.
ClaimSelectRows_NeverClaimed(f, locked) ==
  LET open == {k \in Keys(f, {"queued"}) : f[k].attempts = 0} \ locked
  IN  {k \in open : \A j \in open : f[k].updated_at <= f[j].updated_at}

\* Mutant: the select without `order by updated_at asc`.
ClaimSelectRows_AnyOrder(f, locked) == Keys(f, {"queued"}) \ locked

\* select ... where status='queued' order by updated_at asc limit 1 for update skip locked:
\* the rows the statement may return, given the rows locked by other transactions.
ClaimSelectRows(f, locked) ==
  LET open == Keys(f, {"queued"}) \ locked
  IN  {k \in open : \A j \in open : f[k].updated_at <= f[j].updated_at}

\* update crawl_frontier set status='processing', attempts=attempts+1 ... where url_canonical=%s
ClaimUpdateRow(f, url_canonical, run_id, now) ==
  IF url_canonical \notin DOMAIN f THEN f
  ELSE [f EXCEPT ![url_canonical] =
          [@ EXCEPT !.status = "processing", !.attempts = @ + 1, !.updated_at = now,
                    !.last_run_id = run_id]]

count_frontier_pending(f) == Cardinality(Keys(f, {"queued", "processing"}))

\* Mutant: the update stamps the row and leaves its status.
mark_frontier_done_KeepStatus(f, url_canonical, run_id, now) ==
  IF url_canonical \notin DOMAIN f THEN f
  ELSE [f EXCEPT ![url_canonical] =
          [@ EXCEPT !.updated_at = now, !.last_run_id = run_id, !.last_error = Null]]

mark_frontier_done(f, url_canonical, run_id, now) ==
  IF url_canonical \notin DOMAIN f THEN f
  ELSE [f EXCEPT ![url_canonical] =
          [@ EXCEPT !.status = "done", !.updated_at = now, !.last_run_id = run_id,
                    !.last_error = Null]]

\* Mutant: the update without `and status <> 'done'`.
mark_frontier_failed_AnyStatus(f, url_canonical, run_id, error, now) ==
  IF url_canonical \notin DOMAIN f THEN f
  ELSE [f EXCEPT ![url_canonical] =
          [@ EXCEPT !.status = "failed", !.updated_at = now, !.last_run_id = run_id,
                    !.last_error = Truncate(error)]]

\* error[:1000] raises TypeError when error is None: see MarkFailedRaises.
mark_frontier_failed(f, url_canonical, run_id, error, now) ==
  IF url_canonical \notin DOMAIN f \/ f[url_canonical].status = "done" THEN f
  ELSE [f EXCEPT ![url_canonical] =
          [@ EXCEPT !.status = "failed", !.updated_at = now, !.last_run_id = run_id,
                    !.last_error = Truncate(error)]]

MarkFailedRaises(error) == error.null

\* Mutant: `on conflict do nothing`, the first record of a URL is kept.
upsert_crawled_page_KeepsFirst(p, url, status, error) ==
  IF canonicalize_url(url) \in DOMAIN p THEN p
  ELSE Put(p, canonicalize_url(url), [status |-> status, last_error |-> error])

\* upsert_crawled_page: the row is keyed by canonicalize_url(url).
upsert_crawled_page(p, url, status, error) ==
  Put(p, canonicalize_url(url), [status |-> status, last_error |-> error])

----------------------------------------------------------------------------
(* service.py: IngestionService.enqueue.                                   *)

\* The url_canonical enqueue passes to the store, or <<>> when it returns early.
EnqueueKey(url) ==
  LET canonical == canonicalize_url(url)
  IN  IF canonical = <<>> THEN <<>>
      ELSE IF ~is_core_url(canonical) THEN <<>>
      ELSE canonical

enqueue(f, url, run_id, force_requeue, now) ==
  IF EnqueueKey(url) = <<>> THEN f
  ELSE upsert_frontier_queued(f, EnqueueKey(url), run_id, url, force_requeue, now)

----------------------------------------------------------------------------
(* store.py: the Entity Store. An optional value (None or a value) is a    *)
(* sequence of length 0 or 1; `entities` is the record of the six tables,  *)
(* each a function from its unique key to the row's other columns. A new   *)
(* row's id is the next unused one of its table.                           *)

NoEntities ==
  [models |-> Empty, parts |-> Empty, model_parts |-> Empty, model_symptoms |-> Empty,
   model_media |-> Empty, model_qa |-> Empty]

\* coalesce(excluded.x, t.x)
coalesce(new, old) == IF new # <<>> THEN new ELSE old

\* The next value of a table's id sequence.
NextId(t) ==
  IF DOMAIN t = {} THEN 1
  ELSE 1 + (CHOOSE n \in {t[k].id : k \in DOMAIN t} : \A k \in DOMAIN t : t[k].id <= n)

\* Mutant: on conflict the row is deleted and inserted again, under a new id.
upsert_model_Reinsert(e, model, source_url, now) ==
  [e EXCEPT !.models = Put(@, model.model_number,
      [id |-> NextId(e.models), brand |-> model.brand,
       appliance_type |-> model.appliance_type, source_url |-> source_url,
       updated_at |-> now])]

\* Store.upsert_model: on conflict (model_number) brand, appliance_type and source_url
\* are replaced by the new values.
upsert_model(e, model, source_url, now) ==
  LET k == model.model_number IN
  IF k \notin DOMAIN e.models
  THEN [e EXCEPT !.models = Put(@, k,
          [id |-> NextId(e.models), brand |-> model.brand,
           appliance_type |-> model.appliance_type, source_url |-> source_url,
           updated_at |-> now])]
  ELSE [e EXCEPT !.models[k] =
          [@ EXCEPT !.brand = model.brand, !.appliance_type = model.appliance_type,
                    !.source_url = source_url, !.updated_at = now]]

\* Store.upsert_part: on conflict (partselect_number) the three attributes are
\* coalesce(new, existing).
upsert_part(e, part, source_url, now) ==
  LET k == part.partselect_number IN
  IF k \notin DOMAIN e.parts
  THEN [e EXCEPT !.parts = Put(@, k,
          [id |-> NextId(e.parts),
           manufacturer_part_number |-> part.manufacturer_part_number,
           name |-> part.name, price_value |-> part.price_value,
           source_url |-> source_url, updated_at |-> now])]
  ELSE [e EXCEPT !.parts[k] =
          [@ EXCEPT !.manufacturer_part_number = coalesce(part.manufacturer_part_number, @),
                    !.name = coalesce(part.name, @),
                    !.price_value = coalesce(part.price_value, @),
                    !.source_url = source_url, !.updated_at = now]]

\* Store.upsert_model_part: on conflict (model_id, part_id)
upsert_model_part(e, model_id, part_id, source_url, now) ==
  [e EXCEPT !.model_parts = Put(@, <<model_id, part_id>>,
      [compatibility_confidence |-> 1, source_url |-> source_url, updated_at |-> now])]

\* Store.insert_model_symptom: on conflict (model_id, symptom)
insert_model_symptom(e, model_id, symptom, source_url, now) ==
  [e EXCEPT !.model_symptoms = Put(@, <<model_id, symptom>>,
      [source_url |-> source_url, updated_at |-> now])]

\* Store.insert_model_media: on conflict (model_id, media_type, media_url)
insert_model_media(e, model_id, media_type, title, media_url, source_url, now) ==
  [e EXCEPT !.model_media = Put(@, <<model_id, media_type, media_url>>,
      [title |-> title, source_url |-> source_url, updated_at |-> now])]

\* Store.insert_model_qa: on conflict (model_id, question, answer)
insert_model_qa(e, model_id, question, answer, source_url, now) ==
  [e EXCEPT !.model_qa = Put(@, <<model_id, question, answer>>,
      [source_url |-> source_url, updated_at |-> now])]

\* persist_parsed_page: for part in page.model.parts
RECURSIVE PersistParts(_, _, _, _, _)
PersistParts(e, model_id, parts, source_url, now) ==
  IF parts = <<>> THEN e
  ELSE LET part == Head(parts)
           e1 == upsert_part(e, part, IF part.part_url # <<>> THEN part.part_url ELSE source_url, now)
           part_id == e1.parts[part.partselect_number].id
       IN  PersistParts(upsert_model_part(e1, model_id, part_id, source_url, now),
                        model_id, Tail(parts), source_url, now)

\* persist_parsed_page: for s in page.model.symptoms
RECURSIVE PersistSymptoms(_, _, _, _, _)
PersistSymptoms(e, model_id, symptoms, source_url, now) ==
  IF symptoms = <<>> THEN e
  ELSE PersistSymptoms(insert_model_symptom(e, model_id, Head(symptoms), source_url, now),
                       model_id, Tail(symptoms), source_url, now)

\* persist_parsed_page: for media_type, title, media_url in page.model.media
RECURSIVE PersistMedia(_, _, _, _, _)
PersistMedia(e, model_id, media, source_url, now) ==
  IF media = <<>> THEN e
  ELSE PersistMedia(insert_model_media(e, model_id, Head(media)[1], Head(media)[2],
                                       Head(media)[3], source_url, now),
                    model_id, Tail(media), source_url, now)

\* persist_parsed_page: for q, a in page.model.qa
RECURSIVE PersistQa(_, _, _, _, _)
PersistQa(e, model_id, qa, source_url, now) ==
  IF qa = <<>> THEN e
  ELSE PersistQa(insert_model_qa(e, model_id, Head(qa)[1], Head(qa)[2], source_url, now),
                 model_id, Tail(qa), source_url, now)

\* Mutant: a page without model and part leaves a placeholder row in models.
persist_parsed_page_Placeholder(e, page, source_url, now) ==
  IF page.model = <<>> /\ page.part = <<>>
  THEN [e EXCEPT !.models = Put(@, "unknown",
          [id |-> NextId(e.models), brand |-> <<>>, appliance_type |-> "unknown",
           source_url |-> source_url, updated_at |-> now])]
  ELSE e

\* Store.persist_parsed_page(page, source_url); page.model and page.part are None (<<>>)
\* or hold one value.
persist_parsed_page(e, page, source_url, now) ==
  LET e1 == IF page.model = <<>> THEN e
            ELSE LET model == page.model[1]
                     em == upsert_model(e, model, source_url, now)
                     model_id == em.models[model.model_number].id
                 IN  PersistQa(
                       PersistMedia(
                         PersistSymptoms(
                           PersistParts(em, model_id, model.parts, source_url, now),
                           model_id, model.symptoms, source_url, now),
                         model_id, model.media, source_url, now),
                       model_id, model.qa, source_url, now)
  IN  IF page.part = <<>> THEN e1 ELSE upsert_part(e1, page.part[1], source_url, now)

----------------------------------------------------------------------------
(* parser.py: parse_page. A document is what the regular expressions read  *)
(* off the fetched markdown and title; the URL is parsed token by token.   *)

Digits == {"1", "2"}

\* str.upper() on the tokens of a model or part number.
UpperTok(t) ==
  CASE t = "m2" -> "M2"
    [] OTHER -> t

\* re.search(r"/PS\d+", url): index of the match, 0 when there is none.
FindPS(url) ==
  IF \E i \in 1..(Len(url) - 2) : url[i] = "/" /\ url[i + 1] = "PS" /\ url[i + 2] \in Digits
  THEN CHOOSE i \in 1..(Len(url) - 2) :
         /\ url[i] = "/" /\ url[i + 1] = "PS" /\ url[i + 2] \in Digits
         /\ \A j \in 1..(i - 1) : ~(url[j] = "/" /\ url[j + 1] = "PS" /\ url[j + 2] \in Digits)
  ELSE 0

classify_page(url) ==
  IF Contains(url, <<"/", "Models", "/">>) THEN "model"
  ELSE IF FindPS(url) # 0 THEN "part"
  ELSE IF Contains(url, <<"/", "Repair", "/">>) THEN "repair"
  ELSE "other"

\* A model page with title "Whirlpool Dishwasher ...", one part link in its model
\* section, a symptom, a video and a question; a part page with a heading and a price.
RichDoc ==
  [brand |-> <<"Whirlpool">>, appliance_type |-> "dishwasher",
   part_links |-> <<U_part>>,
   symptoms |-> <<"Leaking">>,
   media |-> << <<"video", "model video", "v1">> >>,
   qa |-> << <<"q1", "a1">> >>,
   name |-> <<"Rack">>, price_value |-> <<25>>]

\* An empty title and a markdown in which no pattern matches.
PoorDoc ==
  [brand |-> <<>>, appliance_type |-> "unknown", part_links |-> <<>>, symptoms |-> <<>>,
   media |-> <<>>, qa |-> <<>>, name |-> <<>>, price_value |-> <<>>]

Docs == {RichDoc, PoorDoc}

\* parse_model_page: the ParsedPart built from one match (link, slug) of PART_LINK_RE;
\* slug is what follows "https://www.partselect.com/" and starts with PS and digits.
PartOfLink(link) ==
  LET slug == SubSeq(link, Len(Site) + 2, Len(link))
      bits == Split(slug, "-")
  IN  [partselect_number |-> <<"PS", UpperTok(slug[2])>>,
       part_url |-> normalize_url(link),
       name |-> <<>>,
       manufacturer_part_number |-> IF Len(bits) >= 3 THEN <<bits[3]>> ELSE <<>>,
       price_value |-> <<>>]

\* The distinct part numbers of parts, in order of first appearance.
RECURSIVE PartNumbers(_)
PartNumbers(parts) ==
  IF parts = <<>> THEN <<>>
  ELSE LET init == PartNumbers(SubSeq(parts, 1, Len(parts) - 1))
           ps == parts[Len(parts)].partselect_number
       IN  IF \E i \in 1..Len(init) : init[i] = ps THEN init ELSE Append(init, ps)

\* parse_model_page: dedup = {}; for p in parts: dedup[p.partselect_number] = p;
\* list(dedup.values()). A dict keeps a key at the position of its first insertion
\* and the value of its last assignment.
DedupParts(parts) ==
  LET keys == PartNumbers(parts)
      lastOf(ps) == CHOOSE i \in 1..Len(parts) :
                      /\ parts[i].partselect_number = ps
                      /\ \A j \in (i + 1)..Len(parts) : parts[j].partselect_number # ps
  IN  [n \in 1..Len(keys) |-> parts[lastOf(keys[n])]]

\* parse_model_page: the parts list read off the part links of the model section.
ModelParts(part_links) ==
  DedupParts([i \in 1..Len(part_links) |-> PartOfLink(part_links[i])])

\* parse_model_page: None (<<>>) when MODEL_RE does not match the URL.
parse_model_page(url, doc) ==
  LET i == Find(url, <<"/", "Models", "/">>) IN
  IF i = 0 \/ i + 3 > Len(url) \/ url[i + 3] \in {"/", "?", "#", " "} THEN <<>>
  ELSE << [model_number |-> UpperTok(url[i + 3]), brand |-> doc.brand,
           appliance_type |-> doc.appliance_type, parts |-> ModelParts(doc.part_links),
           symptoms |-> doc.symptoms, media |-> doc.media, qa |-> doc.qa] >>

\* parse_part_page: None (<<>>) when r"/(PS\d+)-" does not match the URL.
parse_part_page(url, doc) ==
  LET i == FindPS(url) IN
  IF i = 0 \/ i + 3 > Len(url) \/ url[i + 3] # "-" THEN <<>>
  ELSE LET segs == Split(url, "/")
           slug == Split(segs[Len(segs)], "?")[1]
           bits == Split(slug, "-")
       IN  << [partselect_number |-> <<"PS", UpperTok(url[i + 2])>>,
               part_url |-> normalize_url(url),
               name |-> doc.name,
               manufacturer_part_number |-> IF Len(bits) >= 3 THEN <<bits[3]>> ELSE <<>>,
               price_value |-> doc.price_value] >>

parse_page(url, doc) ==
  LET page_kind == classify_page(url) IN
  IF page_kind = "model" THEN [model |-> parse_model_page(url, doc), part |-> <<>>]
  ELSE IF page_kind = "part" THEN [model |-> <<>>, part |-> parse_part_page(url, doc)]
  ELSE [model |-> <<>>, part |-> <<>>]

----------------------------------------------------------------------------
(* store.py: the crawl_runs table.                                         *)

\* insert into crawl_runs(id, ..., status) values (run_id, ..., 'running')
begin_run(t, run_id) == Put(t, run_id, [status |-> "running", closes |-> 0])

\* update crawl_runs set status=%s, finished_at=%s where id=%s
end_run(t, run_id, status) ==
  [t EXCEPT ![run_id] = [status |-> status, closes |-> @.closes + 1]]

----------------------------------------------------------------------------
(* State shared by the specifications.                                     *)

\* The record kept in `applied`; no call yet.
Call(fn, arg, ret) == [fn |-> fn, arg |-> arg, ret |-> ret]
NoCall == [fn |-> "", arg |-> <<>>, ret |-> <<>>]

\* run_stream has not been called.
NoMessage == [text |-> <<>>, model |-> "", part |-> "", live |-> FALSE, intent |-> ""]
NoDone == [status |-> "", intent |-> "", confidence |-> 0]
AgentIdle ==
  [pc |-> "idle", message |-> NoMessage, run_id |-> "", cancelled |-> FALSE,
   n_calls |-> 0, todo |-> <<>>, tool_names_used |-> {},
   compatibility_confirmed |-> FALSE, live_blocked |-> FALSE, live_empty |-> FALSE,
   repeated_no_new_info |-> 0, repeated_same_crawl_call |-> 0,
   last_crawl_call_key |-> <<>>, seen_citation_urls |-> {},
   draft_answer |-> FALSE, final_text |-> FALSE,
   last_event |-> "", done_events |-> 0, done |-> NoDone,
   requested |-> FALSE, invoked |-> FALSE, confirmed_once |-> FALSE,
   exit_status |-> "", crawls |-> <<>>, runs |-> 0, cancel_called |-> FALSE]

\* The record kept in `persisted`: n calls so far; the last call's page and source_url
\* and the tables before it; the page and source_url of the call before.
NoPage == [model |-> <<>>, part |-> <<>>]
NoPersist ==
  [n |-> 0, page |-> NoPage, source_url |-> <<>>, pre |-> NoEntities,
   prev_page |-> NoPage, prev_source_url |-> <<>>]
Persisted(page, source_url) ==
  [n |-> IF persisted.n < 2 THEN persisted.n + 1 ELSE 2,
   page |-> page, source_url |-> source_url, pre |-> entities,
   prev_page |-> persisted.page, prev_source_url |-> persisted.source_url]

\* The record kept in `last` for one store operation.
Op(op, who, url, key, force, err, pre, held, ret, count) ==
  [op |-> op, who |-> who, url |-> url, key |-> key, force |-> force, err |-> err,
   pre |-> pre, held |-> held, ret |-> ret, count |-> count]

NoOp == Op("none", 0, <<>>, <<>>, FALSE, Null, Empty, {}, <<>>, 0)

Locked == {locks[c] : c \in Conns} \ {<<>>}
LockedByOthers(c) == {locks[d] : d \in Conns \ {c}} \ {<<>>}

NoBest == [strategy |-> "", success |-> FALSE, word_count |-> 0, error |-> Null]
NoFetch == [i |-> 0, best |-> NoBest, tried |-> <<>>, returned |-> FALSE]
WorkerOff == [pc |-> "off", url |-> <<>>, idle_ticks |-> 0, best |-> NoBest, todo |-> <<>>]

----------------------------------------------------------------------------------------------------------------------------------------------------
(* SpecStore: the Frontier Store's operations called in any order, with    *)
(* claim_next also called concurrently on separate connections. A claim is *)
(* one transaction: the select takes the row lock (ClaimSelect), the       *)
(* update and the commit release it (ClaimUpdate). A statement of another  *)
(* connection that writes a locked row waits for the commit.               *)

StoreInputs == {U_dish, U_messy, U_evil, U_blank}

IdleCalls == [c \in Conns |-> [pc |-> "idle", ret |-> <<>>]]
NoBatch == [members |-> {}, queued |-> {}]
\* No claim_next call of a group issued by StartCalls is still running.
BatchOver == \A c \in Conns : calls[c].pc \notin {"called", "selected"}

InitStore ==
  /\ frontier = Empty
  /\ locks = [c \in Conns |-> <<>>]
  /\ clock = 0
  /\ calls = IdleCalls
  /\ batch = NoBatch
  /\ last = NoOp
  /\ phase = "store"
  /\ seedIdx = 0
  /\ workers = [w \in Workers |-> WorkerOff]
  /\ fetched = 0
  /\ deadline = FALSE
  /\ pages = Empty
  /\ run = 1
  /\ requeue = FALSE
  /\ crawl_runs = begin_run(Empty, 1)
  /\ linked = Empty
  /\ arun = <<>>
  /\ fetch = NoFetch
  /\ entities = NoEntities
  /\ persisted = NoPersist
  /\ applied = NoCall
  /\ agent = AgentIdle

RunFrame ==
  UNCHANGED <<phase, seedIdx, workers, fetched, deadline, pages, run, requeue, crawl_runs, linked,
              arun, fetch, entities, persisted, applied, agent>>
\* A store operation called outside a group of concurrent claim_next calls.
CallFrame == BatchOver /\ calls' = IdleCalls /\ batch' = NoBatch

\* IngestionService.enqueue(url, force_requeue)
Enqueue(url, force) ==
  LET key == EnqueueKey(url) IN
  /\ clock < MaxClock
  /\ key \notin Locked
  /\ frontier' = enqueue(frontier, url, run, force, clock + 1)
  /\ clock' = IF key = <<>> THEN clock ELSE clock + 1
  /\ last' = Op("enqueue", 0, url, key, force, Null, frontier, Locked, <<>>, 0)
  /\ UNCHANGED locks
  /\ CallFrame /\ RunFrame

\* Store.mark_frontier_done(url_canonical, run_id)
MarkDone(k) ==
  /\ clock < MaxClock
  /\ k \notin Locked
  /\ frontier' = mark_frontier_done(frontier, k, run, clock + 1)
  /\ clock' = clock + 1
  /\ last' = Op("mark_done", 0, k, k, FALSE, Null, frontier, Locked, <<>>, 0)
  /\ UNCHANGED locks
  /\ CallFrame /\ RunFrame

\* Store.mark_frontier_failed(url_canonical, run_id, error)
MarkFailed(k, error) ==
  /\ clock < MaxClock
  /\ k \notin Locked
  /\ IF MarkFailedRaises(error)
     THEN /\ last' = Op("mark_failed_raised", 0, k, k, FALSE, error, frontier, Locked, <<>>, 0)
          /\ UNCHANGED <<frontier, clock>>
     ELSE /\ frontier' = mark_frontier_failed(frontier, k, run, error, clock + 1)
          /\ clock' = clock + 1
          /\ last' = Op("mark_failed", 0, k, k, FALSE, error, frontier, Locked, <<>>, 0)
  /\ UNCHANGED locks
  /\ CallFrame /\ RunFrame

\* Store.reconcile_frontier_for_resume()
Reconcile ==
  /\ clock < MaxClock
  /\ frontier' = reconcile_frontier_for_resume(frontier, clock + 1)
  /\ clock' = clock + 1
  /\ last' = Op("reconcile", 0, <<>>, <<>>, FALSE, Null, frontier, Locked, <<>>,
                ReconcileRowcount(frontier))
  /\ UNCHANGED locks
  /\ CallFrame /\ RunFrame

\* The select of claim_next_frontier_url on connection c (`if not row: return None`):
\* c goes on to pc `held` with the row locked, or returns None and goes on to `none`.
SelectOn(c, held, none) ==
  LET rows == ClaimSelectRows(frontier, LockedByOthers(c)) IN
  /\ IF rows = {}
     THEN /\ calls' = [calls EXCEPT ![c] = [pc |-> none, ret |-> <<>>]]
          /\ last' = Op("claim_select", c, <<>>, <<>>, FALSE, Null, frontier,
                        LockedByOthers(c), <<>>, 0)
          /\ UNCHANGED locks
     ELSE \E k \in rows :
          /\ calls' = [calls EXCEPT ![c] = [pc |-> held, ret |-> <<>>]]
          /\ locks' = [locks EXCEPT ![c] = k]
          /\ last' = Op("claim_select", c, <<>>, k, FALSE, Null, frontier,
                        LockedByOthers(c), k, 0)
  /\ UNCHANGED <<frontier, clock, batch>>
  /\ RunFrame

\* The update and the commit of claim_next_frontier_url on connection c, which
\* returns the URL and goes on to pc `after`.
UpdateOn(c, after, ret) ==
  /\ clock < MaxClock
  /\ frontier' = ClaimUpdateRow(frontier, locks[c], run, clock + 1)
  /\ clock' = clock + 1
  /\ locks' = [locks EXCEPT ![c] = <<>>]
  /\ calls' = [calls EXCEPT ![c] = [pc |-> after, ret |-> ret]]
  /\ last' = Op("claim_update", c, locks[c], locks[c], FALSE, Null, frontier,
                LockedByOthers(c), locks[c], 0)
  /\ UNCHANGED batch
  /\ RunFrame

\* One claim_next call on connection c, at any time.
ClaimSelect(c) == calls[c].pc = "idle" /\ SelectOn(c, "locked", "idle")
ClaimUpdate(c) == calls[c].pc = "locked" /\ UpdateOn(c, "idle", <<>>)

NextStore ==
  \/ \E url \in StoreInputs, force \in BOOLEAN : Enqueue(url, force)
  \/ \E k \in DOMAIN frontier : MarkDone(k)
  \/ \E k \in DOMAIN frontier, error \in Errors \cup {Null} : MarkFailed(k, error)
  \/ Reconcile
  \/ \E c \in Conns : ClaimSelect(c)
  \/ \E c \in Conns : ClaimUpdate(c)

SpecStore == InitStore /\ [][NextStore]_vars

----------------------------------------------------------------------------
(* SpecClaim: store operations called one after the other build the table, *)
(* then claim_next is called on several connections at once (StartCalls)   *)
(* and the calls run to their returns in any interleaving.                 *)

StartCalls(S) ==
  /\ S # {}
  /\ BatchOver
  /\ calls' = [c \in Conns |-> IF c \in S THEN [pc |-> "called", ret |-> <<>>]
                                ELSE [pc |-> "idle", ret |-> <<>>]]
  /\ batch' = [members |-> S, queued |-> Keys(frontier, {"queued"})]
  /\ UNCHANGED <<frontier, locks, clock, last>>
  /\ RunFrame

BatchSelect(c) == calls[c].pc = "called" /\ SelectOn(c, "selected", "returned")
BatchUpdate(c) == calls[c].pc = "selected" /\ UpdateOn(c, "returned", locks[c])

NextClaim ==
  \/ \E url \in StoreInputs, force \in BOOLEAN : Enqueue(url, force)
  \/ \E k \in DOMAIN frontier : MarkDone(k)
  \/ \E k \in DOMAIN frontier, error \in Errors \cup {Null} : MarkFailed(k, error)
  \/ Reconcile
  \/ \E S \in SUBSET Conns : StartCalls(S)
  \/ \E c \in Conns : BatchSelect(c)
  \/ \E c \in Conns : BatchUpdate(c)

SpecClaim == InitStore /\ [][NextClaim]_vars

----------------------------------------------------------------------------
(* service.py: crawl_best. An attempt is what crawler.arun does for one    *)
(* strategy: it raises, or returns a result (success, markdown, error).    *)

CRAWL_CONFIGS == <<"baseline", "wait_body", "selector_article">>

Raises(e) == [raises |-> TRUE, success |-> FALSE, word_count |-> 0, error_message |-> e]
Result(ok, wc, e) == [raises |-> FALSE, success |-> ok, word_count |-> wc, error_message |-> e]

AttemptOutcomes == { Raises(Msg("timeout", 7)), Result(FALSE, 0, Null), Result(TRUE, 1, Null) }
AttemptSeqs == [1..Len(CRAWL_CONFIGS) -> AttemptOutcomes]

Candidate(strategy, a) ==
  IF a.raises
  THEN [strategy |-> strategy, success |-> FALSE, word_count |-> 0, error |-> a.error_message]
  ELSE [strategy |-> strategy, success |-> a.success, word_count |-> a.word_count,
        error |-> IF ~a.success THEN a.error_message ELSE Null]

RECURSIVE CrawlFrom(_, _, _)
CrawlFrom(outcomes, i, best) ==
  IF i > Len(CRAWL_CONFIGS) THEN best
  ELSE LET candidate == Candidate(CRAWL_CONFIGS[i], outcomes[i])
           keep == IF outcomes[i].raises
                   THEN best # NoBest
                   ELSE ~(best = NoBest \/ candidate.word_count > best.word_count)
       IN  CrawlFrom(outcomes, i + 1, IF keep THEN best ELSE candidate)

crawl_best(outcomes) == CrawlFrom(outcomes, 1, NoBest)

\* One pass of the loop body: the strategy is run and best is updated.
CrawlStep(strategy, a, best) ==
  LET candidate == Candidate(strategy, a) IN
  IF a.raises
  THEN IF best = NoBest THEN candidate ELSE best
  ELSE IF best = NoBest \/ candidate.word_count > best.word_count THEN candidate ELSE best

\* What crawler.arun does in SpecFetch: it raises, it reports failure (no content,
\* with or without error_message), or it succeeds with some number of words.
WordCounts == {0, 50, 80, 120}
FetchOutcomes ==
  {Raises(Msg("timeout", 7))}
    \cup {Result(FALSE, 0, e) : e \in {Null, Msg("blocked", 7)}}
    \cup {Result(TRUE, wc, Null) : wc \in WordCounts}

FetchFrame ==
  UNCHANGED <<frontier, locks, clock, calls, batch, last, phase, seedIdx, workers, fetched,
              deadline, pages, run, requeue, crawl_runs, linked, entities, persisted, applied,
              agent>>

\* No run is under way; crawl_best has not been called.
InitFetch == InitStore

\* crawl_best is called: best = None
FetchCall ==
  /\ fetch.i = 0 \/ fetch.returned
  /\ arun' \in [1..Len(CRAWL_CONFIGS) -> FetchOutcomes]
  /\ fetch' = [NoFetch EXCEPT !.i = 1]
  /\ FetchFrame

\* for strategy, cfg in CRAWL_CONFIGS: one pass of the loop
FetchAttempt ==
  /\ fetch.i \in 1..Len(CRAWL_CONFIGS)
  /\ ~fetch.returned
  /\ fetch' = [fetch EXCEPT !.i = @ + 1,
                            !.best = CrawlStep(CRAWL_CONFIGS[fetch.i], arun[fetch.i], fetch.best),
                            !.tried = Append(@, CRAWL_CONFIGS[fetch.i])]
  /\ UNCHANGED arun
  /\ FetchFrame

\* return best
FetchReturn ==
  /\ fetch.i > Len(CRAWL_CONFIGS)
  /\ ~fetch.returned
  /\ fetch' = [fetch EXCEPT !.returned = TRUE]
  /\ UNCHANGED arun
  /\ FetchFrame

NextFetch == FetchCall \/ FetchAttempt \/ FetchReturn

SpecFetch == InitFetch /\ [][NextFetch]_vars

----------------------------------------------------------------------------
(* SpecEntity: persist_parsed_page called on the pages parse_page returns  *)
(* for model, part and other URLs, with any of these URLs as source_url.   *)

MaxPersists == 3

EntityUrls == {U_model, U_model2, U_part, U_part2, U_part3, U_dish}

EntityFrame ==
  UNCHANGED <<frontier, locks, calls, batch, last, phase, seedIdx, workers, fetched,
              deadline, pages, run, requeue, crawl_runs, linked, arun, fetch, applied, agent>>

InitEntity == InitStore

\* persist_parsed_page(parsed, source_url)
Persist(url, doc, source_url) ==
  LET parsed == parse_page(url, doc) IN
  /\ clock < MaxPersists
  /\ entities' = persist_parsed_page(entities, parsed, source_url, clock + 1)
  /\ persisted' = Persisted(parsed, source_url)
  /\ clock' = clock + 1
  /\ EntityFrame

NextEntity == \E url \in EntityUrls, doc \in Docs, source_url \in EntityUrls : Persist(url, doc, source_url)

SpecEntity == InitEntity /\ [][NextEntity]_vars

----------------------------------------------------------------------------
(* app/agent.py: the arguments of a crawl_partselect_live tool call. A     *)
(* URL and a query are token sequences; a user message is what the         *)
(* extractors read off it. An argument the LLM sent as a non-integer is    *)
(* NotInt; a missing argument is <<>>.                                     *)

A_root == Site \o <<"/">>
A_offsite == <<"https:", "/", "/", "example.com", "/", "random">>
A_lookalike == <<"https:", "/", "/", "notpartselect.com", "/">>
A_model == Site \o <<"/", "Models", "/", "WDT780SAEM1", "/">>
A_partpage == Site \o <<"/", "PS", "11752778", "-", "Whirlpool", ".htm">>

Q_id == <<"PS11752778">>
Q_phrase == <<"PS11752778", " ", "installation", " ", "PDF">>
Q_lower == <<"ps11752778">>

\* A user message: the text, what _extract_model_number and _extract_partselect_number
\* find in it ("" when nothing), _wants_live_lookup and _infer_intent_from_message of it.
Msg_live == [text |-> <<"live", " ", "check", " ", "model", " ", "WDT780SAEM1", " ", "part", " ", "PS3406971">>,
             model |-> "WDT780SAEM1", part |-> "PS3406971", live |-> TRUE,
             intent |-> "compatibility"]
Msg_install == [text |-> <<"How", " ", "can", " ", "I", " ", "install", " ", "part", " ", "number", " ", "PS11752778", "?">>,
                model |-> "", part |-> "PS11752778", live |-> FALSE, intent |-> "installation"]
Msg_plain == [text |-> <<"hello">>, model |-> "", part |-> "", live |-> FALSE,
              intent |-> "general_parts_help"]
Messages == {Msg_live, Msg_install, Msg_plain}

\* str.upper() / str.lower() on the tokens of arguments.
ArgUpperTok(t) ==
  CASE t = "ps11752778" -> "PS11752778"
    [] t = "installation" -> "INSTALLATION"
    [] t = "wdt780saem1" -> "WDT780SAEM1"
    [] t = "hello" -> "HELLO"
    [] OTHER -> t
ArgLowerTok(t) ==
  CASE t = "Models" -> "models"
    [] t = "PS" -> "ps"
    [] t = "WDT780SAEM1" -> "wdt780saem1"
    [] t = "Whirlpool" -> "whirlpool"
    [] OTHER -> t
ArgUpper(q) == [i \in 1..Len(q) |-> ArgUpperTok(q[i])]
ArgLower(q) == [i \in 1..Len(q) |-> ArgLowerTok(q[i])]

NotInt == -1000

\* host.endswith("partselect.com")
EndsWithPartselect(host) ==
  host \in {<<"partselect.com">>, <<"www.partselect.com">>, <<"notpartselect.com">>}

\* int(safe.get("max_pages", 2)), 2 when the value is missing or int() raises
IntOr2(v) == IF v = <<>> \/ v = <<NotInt>> THEN 2 ELSE v[1]

Min(a, b) == IF a < b THEN a ELSE b
Max(a, b) == IF a > b THEN a ELSE b

\* MainAgent._normalize_partselect_live_args(args, message)
normalize_partselect_live_args(args, message) ==
  LET raw_url == Strip(args.url)
      host == Lower(UrlParse(raw_url).netloc)
      url1 == IF raw_url = <<>> \/ ~EndsWithPartselect(host) THEN A_root ELSE args.url
      model == IF args.model_number # "" THEN args.model_number ELSE message.model
      current_url == ArgLower(Strip(url1))
      looks_model_page == Contains(current_url, <<"/", "models", "/", ArgLowerTok(model)>>)
      looks_part_page == /\ Contains(current_url, <<"/", "ps">>)
                         /\ current_url[Len(current_url)] = ".htm"
      url2 == IF model # "" /\ ~looks_model_page /\ ~looks_part_page
              THEN Site \o <<"/", "Models", "/", model, "/">> ELSE url1
      query == Strip(args.query)
      query1 == IF query # <<>> THEN args.query
                ELSE IF message.part # "" THEN <<message.part>>
                ELSE IF model # "" THEN <<model>>
                ELSE message.text
  IN  [url |-> url2, model_number |-> model, query |-> query1,
       max_pages |-> <<Max(1, Min(IntOr2(args.max_pages), 6))>>]

\* MainAgent._crawl_call_key(args); the key string is written as the triple of its parts.
crawl_call_key(args) ==
  <<ArgLower(Strip(args.url)), ArgUpperTok(args.model_number), ArgUpper(Strip(args.query))>>

----------------------------------------------------------------------------
(* SpecArgs: the argument functions of the agent applied to the argument   *)
(* sets an LLM can send.                                                   *)

MaxPagesArgs == {<<>>, <<NotInt>>, <<0>>, <<1>>, <<3>>, <<99>>}

CrawlArgs ==
  [url : {<<>>, A_root, A_offsite, A_lookalike, A_model, A_partpage},
   model_number : {"", "WDT780SAEM1"},
   query : {<<>>, Q_id, Q_phrase, Q_lower},
   max_pages : MaxPagesArgs]

ArgsFrame ==
  UNCHANGED <<frontier, locks, clock, calls, batch, last, phase, seedIdx, workers, fetched,
              deadline, pages, run, requeue, crawl_runs, linked, arun, fetch, entities,
              persisted, agent>>

InitArgs == InitStore

\* _normalize_partselect_live_args(args, message)
NormalizeArgs(args, message) ==
  /\ applied' = Call("normalize_partselect_live_args", <<args, message>>,
                     normalize_partselect_live_args(args, message))
  /\ ArgsFrame

\* _crawl_call_key(args)
CrawlCallKey(args) ==
  /\ applied' = Call("crawl_call_key", args, crawl_call_key(args))
  /\ ArgsFrame

NextArgs ==
  \/ \E args \in CrawlArgs, message \in Messages : NormalizeArgs(args, message)
  \/ \E args \in CrawlArgs : CrawlCallKey(args)

SpecArgs == InitArgs /\ [][NextArgs]_vars

----------------------------------------------------------------------------
(* app/agent.py: MainAgent.run_stream. The generator's locals are the      *)
(* fields of `agent`; of the events it yields, `agent` keeps the type of   *)
(* the last one, the number of done events and the done event. requested   *)
(* says that an LLM response carried a tool call, invoked that a toolbox   *)
(* operation was called, confirmed_once that check_part_compatibility      *)
(* returned compatible=true. Confidence is in hundredths. exit_status is    *)
(* the content of the exit message that ended the loop, and crawls the     *)
(* call key and new_info of the last crawl calls that returned. cancelled   *)
(* says that run_id is in _cancelled_runs; runs counts the run_stream      *)
(* calls made with run_id, cancel_called says that cancel_run was called   *)
(* during the present one.                                                 *)

step_limit == 6          \* self.step_limit
MaxToolCalls == 2        \* tool calls in one LLM response

NoArgs == [url |-> <<>>, model_number |-> "", query |-> <<>>, max_pages |-> <<>>]

\* The tool calls an LLM response can carry: name, arguments, and the limit argument
\* of search_partselect_content.
ToolCallPool ==
  { [name |-> "check_part_compatibility", args |-> NoArgs, limit |-> <<>>],
    [name |-> "search_partselect_content", args |-> NoArgs, limit |-> <<3>>],
    [name |-> "search_partselect_content", args |-> NoArgs, limit |-> <<NotInt>>],
    [name |-> "crawl_partselect_live", args |-> [NoArgs EXCEPT !.url = A_root, !.query = Q_id],
     limit |-> <<>>],
    [name |-> "crawl_partselect_live", args |-> [NoArgs EXCEPT !.url = A_root, !.query = Q_phrase],
     limit |-> <<>>],
    [name |-> "summarize", args |-> NoArgs, limit |-> <<>>] }

\* assistant_msg.tool_calls or []
Responses == UNION {[1..n -> ToolCallPool] : n \in 0..MaxToolCalls}

\* What a toolbox operation does: it raises, or returns; a compatibility result has
\* compatible and source_url; a search or crawl result is a list of documents, all of
\* them "Access Denied" pages or none of them.
DocUrls == {"u1", "u2"}
ToolOutcomes(name) ==
  IF name = "check_part_compatibility"
  THEN [raises : {FALSE}, compatible : BOOLEAN, urls : {{}} \cup {{u} : u \in DocUrls},
        denied : {FALSE}]
  ELSE IF name = "search_partselect_content"
  THEN [raises : {FALSE}, compatible : {FALSE}, urls : {{}} \cup {{u} : u \in DocUrls},
        denied : {FALSE}]
  ELSE IF name = "crawl_partselect_live"
  THEN [raises : {FALSE}, compatible : {FALSE}, urls : {{}} \cup {{u} : u \in DocUrls},
        denied : {FALSE}]
       \cup {[raises |-> FALSE, compatible |-> FALSE, urls |-> {"u1"}, denied |-> TRUE],
             [raises |-> TRUE, compatible |-> FALSE, urls |-> {}, denied |-> FALSE]}
  ELSE {[raises |-> FALSE, compatible |-> FALSE, urls |-> {}, denied |-> FALSE]}

\* Mutant: a message that wants a live lookup gets one although the LLM asked for none.
ToolCalls_ForceLive(response, message) ==
  IF response = <<>> /\ message.live
  THEN << [name |-> "crawl_partselect_live", args |-> NoArgs, limit |-> <<>>] >>
  ELSE response

\* run_stream: the tool calls the loop executes after an LLM response.
ToolCalls(response, message) == response

\* Mutant: the confidence without the floor for a confirmed compatibility.
Confidence_NoFloor(tool_names_used, compatibility_confirmed, live_blocked, live_empty) ==
  LET c0 == IF tool_names_used # {} THEN 82 ELSE 62
  IN  IF live_blocked THEN Min(c0, 65)
      ELSE IF live_empty THEN Min(c0, 72)
      ELSE c0

\* run_stream: the confidence of the done event.
Confidence(tool_names_used, compatibility_confirmed, live_blocked, live_empty) ==
  LET c0 == IF tool_names_used # {} THEN 82 ELSE 62
      c1 == IF compatibility_confirmed THEN Max(c0, 90) ELSE c0
  IN  IF live_blocked THEN Min(c1, 65)
      ELSE IF live_empty THEN Min(c1, 72)
      ELSE c1

\* _infer_intent_from_tools(tool_names_used) / _infer_intent_from_message(message)
Intent(tool_names_used, message) ==
  IF tool_names_used = {} THEN message.intent
  ELSE IF "check_part_compatibility" \in tool_names_used THEN "compatibility"
  ELSE IF "crawl_partselect_live" \in tool_names_used THEN "live_lookup"
  ELSE "general_parts_help"

\* yield {"type": "done", "status": "cancelled", ...}; self._clear_cancelled(run_id); return
Cancelled(a) ==
  [a EXCEPT !.last_event = "done", !.done_events = @ + 1,
            !.done = [status |-> "cancelled", intent |-> "general_parts_help", confidence |-> 0],
            !.cancelled = FALSE, !.pc = "returned"]

AgentFrame ==
  UNCHANGED <<frontier, locks, clock, calls, batch, last, phase, seedIdx, workers, fetched,
              deadline, pages, run, requeue, crawl_runs, linked, arun, fetch, entities,
              persisted, applied>>

InitAgent == InitStore

\* run_stream(message, run_id) up to the loop: yield thinking_step
AgentRun(message, run_id) ==
  /\ agent.pc = "idle"
  /\ agent' = [agent EXCEPT !.pc = "loop", !.message = message, !.run_id = run_id,
                            !.last_event = "thinking_step", !.runs = 1]
  /\ AgentFrame

\* cancel_run(run_id), from the thread of another request
CancelRun ==
  /\ agent.pc \in {"loop", "tools", "final"}
  /\ agent.run_id # ""
  /\ ~agent.cancelled
  /\ agent' = [agent EXCEPT !.cancelled = TRUE, !.cancel_called = TRUE]
  /\ AgentFrame

\* Mutant: the step limit lets one more LLM call through.
LimitsExceeded_OffByOne(n_calls) == step_limit > 0 /\ n_calls > step_limit

\* if self.step_limit > 0 and n_calls >= self.step_limit: raise LimitsExceeded
LimitsExceeded(n_calls) == step_limit > 0 /\ n_calls >= step_limit

\* One pass of `while True` up to the tool loop: the cancellation check, the step
\* limit, the LLM call and its response, one of `responses`.
AgentStepFrom(responses) ==
  /\ agent.pc = "loop"
  /\ \/ /\ agent.cancelled
        /\ agent' = Cancelled(agent)
     \/ /\ ~agent.cancelled
        /\ LimitsExceeded(agent.n_calls)
        /\ agent' = [agent EXCEPT !.final_text = TRUE, !.exit_status = "LimitsExceeded",
                                  !.pc = "final"]
     \/ /\ ~agent.cancelled
        /\ ~LimitsExceeded(agent.n_calls)
        /\ \E response \in responses :
             LET tool_calls == ToolCalls(response, agent.message) IN
             agent' = [agent EXCEPT !.n_calls = @ + 1,
                                    !.last_event = "thinking_step",
                                    !.requested = @ \/ response # <<>>,
                                    !.todo = tool_calls,
                                    !.draft_answer = IF tool_calls = <<>> THEN TRUE ELSE @,
                                    !.exit_status =
                                       IF tool_calls = <<>> THEN "Submitted" ELSE @,
                                    !.pc = IF tool_calls = <<>> THEN "final" ELSE "tools"]
  /\ AgentFrame

AgentStep == AgentStepFrom(Responses)

\* Mutant: the guard only counts crawl calls without new information.
NoProgress_OnlyNoNew(repeated_no_new_info, repeated_same_crawl_call) ==
  repeated_no_new_info >= 2

\* if repeated_no_new_info >= 2 or repeated_same_crawl_call >= 2
NoProgress(repeated_no_new_info, repeated_same_crawl_call) ==
  repeated_no_new_info >= 2 \/ repeated_same_crawl_call >= 2

\* The last `depth` crawl calls, the newest last.
LastCrawls(crawls, call_key, new_info, depth) ==
  LET all == Append(crawls, [key |-> call_key, new |-> new_info])
  IN  IF depth = 0 THEN <<>> ELSE IF Len(all) > depth THEN Tail(all) ELSE all

\* One pass of `for i, tc in enumerate(tool_calls)`, keeping the last `depth` crawl
\* calls in agent.crawls. cancel_run can be called from another thread while the
\* tool runs, after the check of this pass (late).
AgentToolKeeping(depth) ==
  LET tc == Head(agent.todo)
      name == tc.name
      rest == Tail(agent.todo)
      a00 == [agent EXCEPT !.tool_names_used = @ \cup {name}, !.last_event = "thinking_token"]
  IN
  /\ agent.pc = "tools"
  /\ \/ /\ agent.cancelled
        /\ agent' = Cancelled(agent)
     \/ /\ ~agent.cancelled
        /\ \E out \in ToolOutcomes(name), late \in BOOLEAN :
             LET before_urls == agent.seen_citation_urls
                 isCrawl == name = "crawl_partselect_live"
                 known == name \in {"check_part_compatibility", "search_partselect_content",
                                    "crawl_partselect_live"}
                 \* int(args.get("limit", 6)) raises before the toolbox is called
                 badLimit == name = "search_partselect_content" /\ tc.limit = <<NotInt>>
                 args == normalize_partselect_live_args(tc.args, agent.message)
                 call_key == crawl_call_key(args)
                 cited == IF out.denied THEN {} ELSE out.urls
                 seen == before_urls \cup cited
                 new_info == seen # before_urls
                 a0 == [a00 EXCEPT !.cancelled = late, !.cancel_called = @ \/ late]
                 same == IF call_key = agent.last_crawl_call_key
                         THEN agent.repeated_same_crawl_call + 1 ELSE 0
                 no_new == IF ~new_info THEN agent.repeated_no_new_info + 1 ELSE 0
                 a1 == [a0 EXCEPT
                          !.invoked = @ \/ known,
                          !.seen_citation_urls = seen,
                          !.compatibility_confirmed =
                             IF name = "check_part_compatibility" THEN out.compatible ELSE @,
                          !.confirmed_once =
                             IF name = "check_part_compatibility" /\ out.compatible THEN TRUE ELSE @,
                          !.live_blocked = IF isCrawl /\ out.denied THEN TRUE ELSE @,
                          !.live_empty = IF isCrawl /\ ~out.denied THEN out.urls = {} ELSE @,
                          !.repeated_same_crawl_call = IF isCrawl THEN same ELSE @,
                          !.last_crawl_call_key = IF isCrawl THEN call_key ELSE @,
                          !.repeated_no_new_info = IF isCrawl THEN no_new ELSE @,
                          !.crawls = IF isCrawl THEN LastCrawls(@, call_key, new_info, depth)
                                     ELSE @,
                          !.last_event = "thinking_step"]
                 submitted == isCrawl /\ NoProgress(no_new, same)
             IN  agent' =
                   IF badLimit THEN [a0 EXCEPT !.pc = "raised"]
                   ELSE IF out.raises THEN [a0 EXCEPT !.invoked = TRUE, !.pc = "raised"]
                   ELSE IF submitted
                   THEN [a1 EXCEPT !.final_text = TRUE, !.exit_status = "Submitted",
                                   !.todo = <<>>, !.pc = "final"]
                   ELSE [a1 EXCEPT !.todo = rest, !.pc = IF rest = <<>> THEN "loop" ELSE "tools"]
  /\ AgentFrame

\* After the loop: the cancellation check, the synthesis stream or the fallback text,
\* the done event and _clear_cancelled. cancel_run can be called while the answer is
\* streamed, after the check (late).
AgentFinal ==
  /\ agent.pc = "final"
  /\ \/ /\ agent.cancelled
        /\ agent' = Cancelled(agent)
     \/ /\ ~agent.cancelled
        /\ \E late \in BOOLEAN :
           agent' =
             [agent EXCEPT
                !.cancel_called = @ \/ late,
                !.cancelled = FALSE,
                !.final_text = TRUE,
                !.last_event = "done",
                !.done_events = @ + 1,
                !.done = [status |-> "",
                          intent |-> Intent(agent.tool_names_used, agent.message),
                          confidence |-> Confidence(agent.tool_names_used,
                                                    agent.compatibility_confirmed,
                                                    agent.live_blocked, agent.live_empty)],
                !.pc = "returned"]
  /\ AgentFrame

AgentTool == AgentToolKeeping(0)

NextAgent ==
  \/ \E message \in {Msg_live, Msg_install} : AgentRun(message, "r1")
  \/ CancelRun
  \/ AgentStep
  \/ AgentTool
  \/ AgentFinal

SpecAgent == InitAgent /\ [][NextAgent]_vars

----------------------------------------------------------------------------
(* SpecGuard: one run_stream with the history of its crawl calls.          *)

CrawlHistory == 3

\* Responses that ask for searches and live crawls only.
LiveToolCalls == {tc \in ToolCallPool : tc.name \in {"search_partselect_content",
                                                     "crawl_partselect_live"}}
LiveResponses == UNION {[1..n -> LiveToolCalls] : n \in 0..MaxToolCalls}

NextGuard ==
  \/ AgentRun(Msg_live, "r1")
  \/ CancelRun
  \/ AgentStepFrom(LiveResponses)
  \/ AgentToolKeeping(CrawlHistory)
  \/ AgentFinal

SpecGuard == InitAgent /\ [][NextGuard]_vars

----------------------------------------------------------------------------
(* SpecCancel: run_stream called again with the run_id of a stream that    *)
(* has ended, on the same MainAgent.                                       *)

MaxStreams == 2

\* run_stream(message, run_id) after the earlier stream with run_id returned or raised:
\* the locals start afresh, _cancelled_runs is the agent's.
AgentRunAgain(message) ==
  /\ agent.pc \in {"returned", "raised"}
  /\ agent.runs < MaxStreams
  /\ agent' = [AgentIdle EXCEPT !.pc = "loop", !.message = message,
                                !.run_id = agent.run_id,
                                !.last_event = "thinking_step",
                                !.cancelled = agent.cancelled,
                                !.runs = agent.runs + 1]
  /\ AgentFrame

NextCancel ==
  \/ AgentRun(Msg_live, "r1")
  \/ AgentRunAgain(Msg_live)
  \/ CancelRun
  \/ AgentStepFrom(LiveResponses)
  \/ AgentTool
  \/ AgentFinal

SpecCancel == InitAgent /\ [][NextCancel]_vars

----------------------------------------------------------------------------
(* SpecParser: the functions of parser.py applied to bounded inputs.       *)

MaxPartLinks == 3

\* Matches of PART_LINK_RE: links to part pages, some naming the same part.
PartLinkPool == {U_part, U_partq, U_part1, U_part2, U_part3}
PartLinkLists == UNION {[1..n -> PartLinkPool] : n \in 0..MaxPartLinks}

ParserFrame ==
  UNCHANGED <<frontier, locks, clock, calls, batch, last, phase, seedIdx, workers, fetched,
              deadline, pages, run, requeue, crawl_runs, linked, arun, fetch, entities,
              persisted, agent>>

InitParser == InitStore

\* parse_model_page(url, markdown, title) on a model page whose section holds part_links
ParseModelPage(url, part_links) ==
  /\ applied' = Call("parse_model_page", part_links,
                     parse_model_page(url, [RichDoc EXCEPT !.part_links = part_links]))
  /\ ParserFrame

\* Strings handed to canonicalize_url: URLs, their variants, and strings without host.
U_schemeless == <<"partselect.com", "/", "Models", "/", "M1">>
U_spaced == Site \o <<"/", "Models", "/", "M1", " ", "/">>
UrlPool ==
  {<<>>, U_blank, U_bare, U_root, U_dish, U_brands, U_brand, U_model, U_model2, U_messy,
   U_apex, U_evil, U_about, U_part, U_partq, U_part3, U_schemeless, U_spaced}

\* canonicalize_url(url)
Canonicalize(url) ==
  /\ applied' = Call("canonicalize_url", url, canonicalize_url(url))
  /\ ParserFrame

NextParser ==
  \/ \E part_links \in PartLinkLists : ParseModelPage(U_model, part_links)
  \/ \E url \in UrlPool : Canonicalize(url)

SpecParser == InitParser /\ [][NextParser]_vars

----------------------------------------------------------------------------
(* service.py: IngestionService.run, IngestionService.worker and           *)
(* run_ingestion. Workers are asyncio tasks of one process sharing one     *)
(* connection: claim_next runs without interleaving; every store           *)
(* statement of a worker is a step of its own, and the steps of two        *)
(* workers interleave only at the awaits.                                  *)

\* cfg.seed_urls: three of the default seeds and a blank entry.
seed_urls == <<U_root, U_blank, U_dish, U_brands>>

\* Links a fetched page may carry: each matches LINK_RE.
LinkPool == {U_model, U_messy, U_evil, U_about, U_dish, U_part3}
LinkLists == UNION {[1..n -> LinkPool] : n \in 0..MaxLinks}

Init ==
  /\ frontier = Empty
  /\ locks = [c \in Conns |-> <<>>]
  /\ clock = 0
  /\ calls = IdleCalls
  /\ batch = NoBatch
  /\ last = NoOp
  /\ phase = "reconcile"
  /\ seedIdx = 1
  /\ workers = [w \in Workers |-> WorkerOff]
  /\ fetched = 0
  /\ deadline = FALSE
  /\ pages = Empty
  /\ run = 1
  /\ requeue \in BOOLEAN
  /\ crawl_runs = begin_run(Empty, 1)
  /\ linked = Empty
  /\ arun = <<>>
  /\ fetch = NoFetch
  /\ entities = NoEntities
  /\ persisted = NoPersist
  /\ applied = NoCall
  /\ agent = AgentIdle

StoreFrame ==
  UNCHANGED <<locks, calls, batch, arun, fetch, entities, persisted, applied, agent>>

\* run(): self.store.reconcile_frontier_for_resume()
RunReconcileWithin(limit) ==
  /\ phase = "reconcile"
  /\ clock < limit
  /\ frontier' = reconcile_frontier_for_resume(frontier, clock + 1)
  /\ clock' = clock + 1
  /\ last' = Op("reconcile", 0, <<>>, <<>>, FALSE, Null, frontier, {}, <<>>,
                ReconcileRowcount(frontier))
  /\ phase' = "seed"
  /\ UNCHANGED <<seedIdx, workers, fetched, deadline, pages, run, requeue>>
  /\ UNCHANGED <<crawl_runs, linked>>
  /\ StoreFrame

RunReconcile == RunReconcileWithin(MaxRunClock)

\* run(): for s in self.cfg.seed_urls: self.enqueue(s, force_requeue=...)
RunSeedWithin(limit) ==
  LET url == seed_urls[seedIdx]
      key == EnqueueKey(url) IN
  /\ phase = "seed"
  /\ seedIdx <= Len(seed_urls)
  /\ clock < limit
  /\ frontier' = enqueue(frontier, url, run, requeue, clock + 1)
  /\ clock' = IF key = <<>> THEN clock ELSE clock + 1
  /\ last' = Op("enqueue", 0, url, key, requeue, Null, frontier, {}, <<>>, 0)
  /\ seedIdx' = seedIdx + 1
  /\ UNCHANGED <<phase, workers, fetched, deadline, pages, run, requeue>>
  /\ UNCHANGED <<crawl_runs, linked>>
  /\ StoreFrame

RunSeed == RunSeedWithin(MaxRunClock)

\* run(): the workers are created and gathered.
RunLaunch ==
  /\ phase = "seed"
  /\ seedIdx > Len(seed_urls)
  /\ phase' = "crawl"
  /\ workers' = [w \in Workers |-> [WorkerOff EXCEPT !.pc = "loop"]]
  /\ UNCHANGED <<frontier, clock, last, seedIdx, fetched, deadline, pages, run, requeue>>
  /\ UNCHANGED <<crawl_runs, linked>>
  /\ StoreFrame

\* The keys enqueue() passes to the store for the discovered URLs of a page.
InScopeKeys(discovered_urls) ==
  {EnqueueKey(discovered_urls[i]) : i \in {j \in 1..Len(discovered_urls) : is_core_url(discovered_urls[j])}}
    \ {<<>>}

\* time.monotonic() reaches end_time.
DeadlinePasses ==
  /\ phase = "crawl"
  /\ ~deadline
  /\ deadline' = TRUE
  /\ UNCHANGED <<frontier, clock, last, phase, seedIdx, workers, fetched, pages, run, requeue>>
  /\ UNCHANGED <<crawl_runs, linked>>
  /\ StoreFrame

\* asyncio runs one task at a time and switches only where a task awaits
\* (crawl_best, asyncio.sleep): while a worker is between two awaits, at one of the
\* statements below, no other worker takes a step.
Scheduled(w) ==
  \A v \in Workers \ {w} :
    workers[v].pc \notin {"fail_page", "mark_failed", "page", "persist", "mark_done", "discover"}

WorkerFrame == UNCHANGED <<phase, seedIdx, deadline, run, requeue, crawl_runs>> /\ StoreFrame

\* Mutant: the idle branch counts nothing and never returns.
WorkerLoopWithin_PollsForever(w, limit, cap) ==
  LET me == workers[w]
      rows == ClaimSelectRows(frontier, {}) IN
  /\ phase = "crawl"
  /\ Scheduled(w)
  /\ me.pc = "loop"
  /\ IF deadline \/ ~(fetched < cap)
     THEN /\ workers' = [workers EXCEPT ![w].pc = "exited"]
          /\ UNCHANGED <<frontier, clock, last>>
     ELSE IF rows = {}
     THEN /\ workers' = [workers EXCEPT ![w].pc = "sleep"]
          /\ last' = Op("claim", w, <<>>, <<>>, FALSE, Null, frontier, {}, <<>>,
                        count_frontier_pending(frontier))
          /\ UNCHANGED <<frontier, clock>>
     ELSE /\ clock < limit
          /\ \E k \in rows :
               /\ frontier' = ClaimUpdateRow(frontier, k, run, clock + 1)
               /\ workers' = [workers EXCEPT ![w].idle_ticks = 0, ![w].url = k, ![w].pc = "fetch"]
               /\ last' = Op("claim", w, k, k, FALSE, Null, frontier, {}, k, 0)
          /\ clock' = clock + 1
  /\ UNCHANGED <<fetched, pages>>
  /\ UNCHANGED linked
  /\ WorkerFrame

\* worker(): the while condition, claim_next_frontier_url and the idle branch.
WorkerLoopWithin(w, limit, cap) ==
  LET me == workers[w]
      rows == ClaimSelectRows(frontier, {}) IN
  /\ phase = "crawl"
  /\ Scheduled(w)
  /\ me.pc = "loop"
  /\ IF deadline \/ ~(fetched < cap)
     THEN /\ workers' = [workers EXCEPT ![w].pc = "exited"]
          /\ UNCHANGED <<frontier, clock, last>>
     ELSE IF rows = {}
     THEN /\ workers' = [workers EXCEPT
                 ![w].idle_ticks = @ + 1,
                 ![w].pc = IF count_frontier_pending(frontier) = 0 \/ me.idle_ticks + 1 >= IdleLimit
                           THEN "exited" ELSE "sleep"]
          /\ last' = Op("claim", w, <<>>, <<>>, FALSE, Null, frontier, {}, <<>>,
                        count_frontier_pending(frontier))
          /\ UNCHANGED <<frontier, clock>>
     ELSE /\ clock < limit
          /\ \E k \in rows :
               /\ frontier' = ClaimUpdateRow(frontier, k, run, clock + 1)
               /\ workers' = [workers EXCEPT ![w].idle_ticks = 0, ![w].url = k, ![w].pc = "fetch"]
               /\ last' = Op("claim", w, k, k, FALSE, Null, frontier, {}, k, 0)
          /\ clock' = clock + 1
  /\ UNCHANGED <<fetched, pages>>
  /\ UNCHANGED linked
  /\ WorkerFrame

WorkerLoop(w) == WorkerLoopWithin(w, MaxRunClock, max_pages)

\* worker(): asyncio.sleep(1.0) returns.
WorkerWake(w) ==
  /\ phase = "crawl"
  /\ Scheduled(w)
  /\ workers[w].pc = "sleep"
  /\ workers' = [workers EXCEPT ![w].pc = "loop"]
  /\ UNCHANGED <<frontier, clock, last, fetched, pages>>
  /\ UNCHANGED linked
  /\ WorkerFrame

\* worker(): best = await self.crawl_best(crawler, url); self.stats.fetched += 1
WorkerFetch(w) ==
  /\ phase = "crawl"
  /\ Scheduled(w)
  /\ workers[w].pc = "fetch"
  /\ \E outcomes \in AttemptSeqs :
       LET best == crawl_best(outcomes) IN
       workers' = [workers EXCEPT ![w].best = best,
                                  ![w].pc = IF ~best.success THEN "fail_page" ELSE "page"]
  /\ fetched' = fetched + 1
  /\ UNCHANGED <<frontier, clock, last, pages>>
  /\ UNCHANGED linked
  /\ WorkerFrame

\* worker(): upsert_crawled_page(status="failed")
WorkerFailPage(w) ==
  /\ phase = "crawl"
  /\ Scheduled(w)
  /\ workers[w].pc = "fail_page"
  /\ pages' = upsert_crawled_page(pages, workers[w].url, "failed", workers[w].best.error)
  /\ workers' = [workers EXCEPT ![w].pc = "mark_failed"]
  /\ UNCHANGED <<frontier, clock, last, fetched>>
  /\ UNCHANGED linked
  /\ WorkerFrame

\* worker(): mark_frontier_failed(url, run_id, best["error"]); continue
WorkerMarkFailedWithin(w, limit) ==
  LET me == workers[w] IN
  /\ phase = "crawl"
  /\ Scheduled(w)
  /\ me.pc = "mark_failed"
  /\ IF MarkFailedRaises(me.best.error)
     THEN /\ workers' = [workers EXCEPT ![w].pc = "raised"]
          /\ last' = Op("mark_failed_raised", w, me.url, me.url, FALSE, me.best.error,
                        frontier, {}, <<>>, 0)
          /\ UNCHANGED <<frontier, clock>>
     ELSE /\ clock < limit
          /\ frontier' = mark_frontier_failed(frontier, me.url, run, me.best.error, clock + 1)
          /\ clock' = clock + 1
          /\ workers' = [workers EXCEPT ![w].pc = "loop", ![w].url = <<>>, ![w].best = NoBest]
          /\ last' = Op("mark_failed", w, me.url, me.url, FALSE, me.best.error,
                        frontier, {}, <<>>, 0)
  /\ UNCHANGED <<fetched, pages>>
  /\ UNCHANGED linked
  /\ WorkerFrame

WorkerMarkFailed(w) == WorkerMarkFailedWithin(w, MaxRunClock)

\* worker(): parsed = parse_page(url, markdown, title); upsert_crawled_page(status="parsed").
\* discovered_urls = [normalize_url(u) for u in LINK_RE.findall(markdown)]
WorkerPageFrom(w, lists) ==
  /\ phase = "crawl"
  /\ Scheduled(w)
  /\ workers[w].pc = "page"
  /\ \E links \in lists :
       LET discovered_urls == [i \in 1..Len(links) |-> normalize_url(links[i])] IN
       /\ workers' = [workers EXCEPT ![w].todo = discovered_urls, ![w].pc = "persist"]
       /\ linked' = Put(linked, workers[w].url, InScopeKeys(discovered_urls))
  /\ pages' = upsert_crawled_page(pages, workers[w].url, "parsed", Null)
  /\ UNCHANGED <<frontier, clock, last, fetched>>
  /\ WorkerFrame

WorkerPage(w) == WorkerPageFrom(w, LinkLists)

\* worker(): self.store.persist_parsed_page(parsed, source_url=url), parsed being
\* parse_page(url, markdown, title); an upsert of the Entity Store may raise
\* (psycopg.Error), and nothing in worker() catches it. The statements are stamped
\* with the database's now(). For a page without model and part the call executes no
\* statement: it cannot raise, and `persisted` keeps the last call that did execute one.
WorkerPersist(w) ==
  /\ phase = "crawl"
  /\ Scheduled(w)
  /\ workers[w].pc = "persist"
  /\ \E doc \in Docs :
       LET parsed == parse_page(workers[w].url, doc) IN
       \E raised \in (IF parsed = NoPage THEN {FALSE} ELSE BOOLEAN) :
         /\ workers' = [workers EXCEPT ![w].pc = IF raised THEN "raised" ELSE "mark_done"]
         /\ entities' = IF raised THEN entities
                        ELSE persist_parsed_page(entities, parsed, workers[w].url, clock)
         /\ persisted' = IF raised \/ parsed = NoPage THEN persisted
                         ELSE Persisted(parsed, workers[w].url)
  /\ UNCHANGED <<frontier, clock, last, fetched, pages>>
  /\ UNCHANGED linked
  /\ UNCHANGED <<phase, seedIdx, deadline, run, requeue, crawl_runs>>
  /\ UNCHANGED <<locks, calls, batch, arun, fetch, applied, agent>>

\* worker(): self.store.mark_frontier_done(url, self.run_id)
WorkerMarkDoneWithin(w, limit) ==
  LET me == workers[w] IN
  /\ phase = "crawl"
  /\ Scheduled(w)
  /\ me.pc = "mark_done"
  /\ clock < limit
  /\ frontier' = mark_frontier_done(frontier, me.url, run, clock + 1)
  /\ clock' = clock + 1
  /\ workers' = [workers EXCEPT ![w].pc = IF me.todo = <<>> THEN "loop" ELSE "discover",
                                ![w].url = <<>>, ![w].best = NoBest]
  /\ last' = Op("mark_done", w, me.url, me.url, FALSE, Null, frontier, {}, <<>>, 0)
  /\ UNCHANGED <<fetched, pages>>
  /\ UNCHANGED linked
  /\ WorkerFrame

WorkerMarkDone(w) == WorkerMarkDoneWithin(w, MaxRunClock)

\* worker(): for durl in parsed.discovered_urls: if is_core_url(durl): self.enqueue(durl)
WorkerDiscoverWithin(w, limit) ==
  LET me == workers[w]
      durl == Head(me.todo)
      key == IF is_core_url(durl) THEN EnqueueKey(durl) ELSE <<>> IN
  /\ phase = "crawl"
  /\ Scheduled(w)
  /\ me.pc = "discover"
  /\ clock < limit
  /\ frontier' = IF is_core_url(durl) THEN enqueue(frontier, durl, run, FALSE, clock + 1)
                 ELSE frontier
  /\ clock' = IF key = <<>> THEN clock ELSE clock + 1
  /\ last' = Op("enqueue", w, durl, key, FALSE, Null, frontier, {}, <<>>, 0)
  /\ workers' = [workers EXCEPT ![w].todo = Tail(me.todo),
                                ![w].pc = IF Tail(me.todo) = <<>> THEN "loop" ELSE "discover"]
  /\ UNCHANGED <<fetched, pages>>
  /\ UNCHANGED linked
  /\ WorkerFrame

WorkerDiscover(w) == WorkerDiscoverWithin(w, MaxRunClock)

\* run_ingestion(): asyncio.run(service.run()) returns; store.end_run(run_id, "done")
RunEnd ==
  /\ phase = "crawl"
  /\ \A w \in Workers : workers[w].pc = "exited"
  /\ phase' = "done"
  /\ UNCHANGED <<frontier, clock, last, seedIdx, workers, fetched, deadline, pages, run, requeue>>
  /\ crawl_runs' = end_run(crawl_runs, run, "done")
  /\ UNCHANGED linked
  /\ StoreFrame

\* run_ingestion(): a worker's exception leaves gather; the other tasks are cancelled
\* where they await; store.end_run(run_id, "failed")
RunAbort ==
  /\ phase = "crawl"
  /\ \E w \in Workers : workers[w].pc = "raised"
  /\ \A w \in Workers : workers[w].pc \in {"raised", "exited", "fetch", "sleep"}
  /\ phase' = "failed"
  /\ workers' = [w \in Workers |->
                   IF workers[w].pc \in {"fetch", "sleep"}
                   THEN [workers[w] EXCEPT !.pc = "cancelled"] ELSE workers[w]]
  /\ UNCHANGED <<frontier, clock, last, seedIdx, fetched, deadline, pages, run, requeue>>
  /\ crawl_runs' = end_run(crawl_runs, run, "failed")
  /\ UNCHANGED linked
  /\ StoreFrame

\* run_ingestion(): KeyboardInterrupt (SIGINT) while asyncio.run is waiting: the
\* tasks are cancelled where they await and the exception leaves asyncio.run;
\* `except Exception` does not catch it, `finally` closes the connection.
RunInterrupt ==
  /\ phase = "crawl"
  /\ \A w \in Workers : workers[w].pc \in {"raised", "exited", "fetch", "sleep"}
  /\ phase' = "interrupted"
  /\ workers' = [w \in Workers |->
                   IF workers[w].pc \in {"fetch", "sleep"}
                   THEN [workers[w] EXCEPT !.pc = "cancelled"] ELSE workers[w]]
  /\ UNCHANGED <<frontier, clock, last, seedIdx, fetched, deadline, pages, run, requeue,
                 crawl_runs, linked>>
  /\ StoreFrame

\* The process stops abruptly (killed, power loss): nothing more is executed, the
\* stores stay as they are and the state of the process is gone.
RunStop ==
  /\ phase \in {"reconcile", "seed", "crawl"}
  /\ phase' = "stopped"
  /\ workers' = [w \in Workers |-> [WorkerOff EXCEPT !.pc = "stopped"]]
  /\ seedIdx' = 1
  /\ fetched' = 0
  /\ deadline' = FALSE
  /\ UNCHANGED <<frontier, clock, last, pages, run, requeue, crawl_runs, linked>>
  /\ StoreFrame

\* The pipeline is invoked again: a new process, a new run_id, new CrawlStats.
RunStart ==
  /\ phase \in {"done", "failed", "interrupted", "stopped"}
  /\ run < MaxRuns
  /\ run' = run + 1
  /\ requeue' \in BOOLEAN
  /\ phase' = "reconcile"
  /\ seedIdx' = 1
  /\ workers' = [w \in Workers |-> WorkerOff]
  /\ fetched' = 0
  /\ deadline' = FALSE
  /\ UNCHANGED <<frontier, clock, last, pages>>
  /\ crawl_runs' = begin_run(crawl_runs, run + 1)
  /\ UNCHANGED linked
  /\ StoreFrame

Next ==
  \/ RunReconcile
  \/ RunSeed
  \/ RunLaunch
  \/ DeadlinePasses
  \/ \E w \in Workers : WorkerLoop(w)
  \/ \E w \in Workers : WorkerWake(w)
  \/ \E w \in Workers : WorkerFetch(w)
  \/ \E w \in Workers : WorkerFailPage(w)
  \/ \E w \in Workers : WorkerMarkFailed(w)
  \/ \E w \in Workers : WorkerPage(w)
  \/ \E w \in Workers : WorkerPersist(w)
  \/ \E w \in Workers : WorkerMarkDone(w)
  \/ \E w \in Workers : WorkerDiscover(w)
  \/ RunEnd
  \/ RunAbort
  \/ RunInterrupt
  \/ RunStop
  \/ RunStart

Spec == Init /\ [][Next]_vars

----------------------------------------------------------------------------
(* SpecLive: one invocation of the pipeline that nobody stops, whose       *)
(* deadline does not pass and whose page cap is out of reach. asyncio      *)
(* resumes every task that is ready (the ready queue is first in, first    *)
(* out), crawl_best and asyncio.sleep return, and the statements of        *)
(* run() and run_ingestion() follow one another: every step that stays     *)
(* enabled is eventually taken.                                            *)

MaxLiveClock == 40       \* writing statements in one behaviour of SpecLive
LivePages == 50          \* cfg.max_pages, more than the fetches of one behaviour

\* Links a fetched page may carry in SpecLive: a seed and one other in-scope URL.
LiveLinkPool == {U_dish, U_model}
LiveLinkLists == UNION {[1..n -> LiveLinkPool] : n \in 0..MaxLinks}

InitLive == Init /\ requeue = FALSE

\* The steps of worker w whose statements touch no URL text.
WorkerLive(w) ==
  \/ WorkerLoopWithin(w, MaxLiveClock, LivePages)
  \/ WorkerWake(w)
  \/ WorkerFetch(w)
  \/ WorkerMarkFailedWithin(w, MaxLiveClock)
  \/ WorkerMarkDoneWithin(w, MaxLiveClock)

\* The steps of worker w that canonicalize or parse a URL.
WorkerLiveUrl(w) ==
  \/ WorkerFailPage(w)
  \/ WorkerPageFrom(w, LiveLinkLists)
  \/ WorkerPersist(w)
  \/ WorkerDiscoverWithin(w, MaxLiveClock)

\* The steps of run() and run_ingestion() other than the seed loop.
RunLive ==
  \/ RunReconcileWithin(MaxLiveClock)
  \/ RunLaunch
  \/ RunEnd
  \/ RunAbort

NextLive ==
  \/ RunLive
  \/ RunSeedWithin(MaxLiveClock)
  \/ \E w \in Workers : WorkerLive(w)
  \/ \E w \in Workers : WorkerLiveUrl(w)

\* When RunSeedWithin(MaxLiveClock) and WorkerLiveUrl(w) can take a step, and what
\* such a step changes.
SeedReady == phase = "seed" /\ seedIdx <= Len(seed_urls) /\ clock < MaxLiveClock
UrlReady(w) ==
  /\ phase = "crawl"
  /\ Scheduled(w)
  /\ \/ workers[w].pc \in {"fail_page", "page", "persist"}
     \/ workers[w].pc = "discover" /\ clock < MaxLiveClock
UrlStep(w) ==
  /\ workers[w].pc \in {"fail_page", "page", "persist", "discover"}
  /\ workers'[w] # workers[w]

\* Weak fairness of every step. For the steps that work on URL text it is written
\* out, ENABLED being SeedReady and UrlReady(w), and the step being recognised by
\* what it changes.
SpecLive ==
  /\ InitLive
  /\ [][NextLive]_vars
  /\ WF_vars(RunLive)
  /\ \A w \in Workers : WF_vars(WorkerLive(w))
  /\ ([]<>~SeedReady \/ []<><<seedIdx' # seedIdx>>_vars)
  /\ \A w \in Workers : ([]<>~UrlReady(w) \/ []<><<UrlStep(w)>>_vars)

----------------------------------------------------------------------------
(* SpecResume: pipeline invocations started at any time on the same store, *)
(* each a process of its own with one worker; workers[i] is the worker of  *)
(* invocation i, whose run_id is i. run() up to the launch of the worker   *)
(* has no await and is one step of its process; a worker's iteration is    *)
(* two steps, the claim and, after the fetch, the marking of its entry.    *)

MaxResumeClock == 14     \* writing statements in one behaviour of SpecResume

\* run(): for s in self.cfg.seed_urls: self.enqueue(s, force_requeue=False), from
\* seed i on; every statement that reaches the store is stamped with its own now().
RECURSIVE SeedFrom(_, _, _, _)
SeedFrom(f, i, run_id, now) ==
  IF i > Len(seed_urls) THEN [f |-> f, now |-> now]
  ELSE IF EnqueueKey(seed_urls[i]) = <<>> THEN SeedFrom(f, i + 1, run_id, now)
  ELSE SeedFrom(enqueue(f, seed_urls[i], run_id, FALSE, now + 1), i + 1, run_id, now + 1)

ResumeFrame ==
  UNCHANGED <<locks, calls, batch, phase, seedIdx, fetched, deadline, run, requeue,
              crawl_runs, linked, arun, fetch, entities, persisted, applied, agent>>

InitResume == InitStore

\* run(): reconcile_frontier_for_resume(), the seed loop, the worker is created.
ResumeRun(i) ==
  LET seeded == SeedFrom(reconcile_frontier_for_resume(frontier, clock + 1), 1, i, clock + 1) IN
  /\ workers[i].pc = "off"
  /\ seeded.now <= MaxResumeClock
  /\ frontier' = seeded.f
  /\ clock' = seeded.now
  /\ workers' = [workers EXCEPT ![i].pc = "loop"]
  /\ last' = Op("reconcile", i, <<>>, <<>>, FALSE, Null, frontier, {}, <<>>,
                ReconcileRowcount(frontier))
  /\ UNCHANGED pages
  /\ ResumeFrame

\* worker(): claim_next_frontier_url(run_id) and the idle branch, up to the await of
\* crawl_best or of asyncio.sleep, or the return.
ResumeClaim(i) ==
  LET me == workers[i]
      rows == ClaimSelectRows(frontier, {}) IN
  /\ me.pc = "loop"
  /\ IF rows = {}
     THEN /\ workers' = [workers EXCEPT
                 ![i].idle_ticks = @ + 1,
                 ![i].pc = IF count_frontier_pending(frontier) = 0 \/ me.idle_ticks + 1 >= IdleLimit
                           THEN "exited" ELSE "loop"]
          /\ last' = Op("claim", i, <<>>, <<>>, FALSE, Null, frontier, {}, <<>>,
                        count_frontier_pending(frontier))
          /\ UNCHANGED <<frontier, clock>>
     ELSE /\ clock < MaxResumeClock
          /\ \E k \in rows :
               /\ frontier' = ClaimUpdateRow(frontier, k, i, clock + 1)
               /\ workers' = [workers EXCEPT ![i].idle_ticks = 0, ![i].url = k, ![i].pc = "fetch"]
               /\ last' = Op("claim", i, k, k, FALSE, Null, frontier, {}, k, 0)
          /\ clock' = clock + 1
  /\ UNCHANGED pages
  /\ ResumeFrame

\* worker(): crawl_best returned; the page record and mark_frontier_failed, or the page
\* record, the entities and mark_frontier_done.
ResumeMark(i) ==
  LET me == workers[i] IN
  /\ me.pc = "fetch"
  /\ clock < MaxResumeClock
  /\ \/ /\ frontier' = mark_frontier_done(frontier, me.url, i, clock + 1)
        /\ pages' = upsert_crawled_page(pages, me.url, "parsed", Null)
        /\ last' = Op("mark_done", i, me.url, me.url, FALSE, Null, frontier, {}, <<>>, 0)
     \/ \E error \in Errors :
          /\ frontier' = mark_frontier_failed(frontier, me.url, i, error, clock + 1)
          /\ pages' = upsert_crawled_page(pages, me.url, "failed", error)
          /\ last' = Op("mark_failed", i, me.url, me.url, FALSE, error, frontier, {}, <<>>, 0)
  /\ clock' = clock + 1
  /\ workers' = [workers EXCEPT ![i].pc = "loop", ![i].url = <<>>]
  /\ ResumeFrame

NextResume ==
  \/ \E i \in Workers : ResumeRun(i)
  \/ \E i \in Workers : ResumeClaim(i)
  \/ \E i \in Workers : ResumeMark(i)

SpecResume == InitResume /\ [][NextResume]_vars

----------------------------------------------------------------------------
(* Properties.                                                             *)

QueuedIn(f) == Keys(f, {"queued"})
Touched == last.key \in DOMAIN last.pre
BatchReturned ==
  batch.members # {} /\ \A c \in batch.members : calls[c].pc = "returned"

\* C1 (SpecClaim): when claim_next is called on N connections at once against a
\* frontier with exactly one queued entry, then after all calls have returned, in
\* every interleaving, exactly one call has returned that entry's URL, every other
\* call has returned None, and the entry is processing.
C1_MutualExclusion ==
  (BatchReturned /\ Cardinality(batch.queued) = 1) =>
    \E u \in batch.queued :
      /\ Cardinality({c \in batch.members : calls[c].ret = u}) = 1
      /\ \A c \in batch.members : calls[c].ret \in {u, <<>>}
      /\ frontier[u].status = "processing"
      /\ frontier[u].attempts = last.pre[u].attempts + 1 \/ last.op # "claim_update"

C1_Witness ==
  /\ BatchReturned
  /\ Cardinality(batch.queued) = 1
  /\ Cardinality(batch.members) >= 2
  /\ \E c \in batch.members : calls[c].ret # <<>>
  /\ \E c \in batch.members : calls[c].ret = <<>>

\* A worker holds its URL from the return of claim_next to mark_done / mark_failed.
Holding(w) ==
  workers[w].pc \in {"fetch", "fail_page", "mark_failed", "page", "persist", "mark_done"}

\* C2 (Spec): in every state of a run, no two workers hold the same URL, and the
\* entry of every URL a worker holds is processing.
C2_SingleHolder ==
  /\ \A w \in Workers : Holding(w) =>
        /\ workers[w].url \in DOMAIN frontier
        /\ frontier[workers[w].url].status = "processing"
  /\ \A v, w \in Workers : (v # w /\ Holding(v) /\ Holding(w)) => workers[v].url # workers[w].url

C2_Witness ==
  \E w \in Workers :
    /\ Holding(w)
    /\ last.op = "enqueue" /\ last.who \in Workers \ {w}
    /\ last.key = workers[w].url
    /\ fetched < max_pages

\* C3 (SpecStore): an entry that is done stays done under every operation except a
\* forced enqueue of its URL.
C3_DoneIsTerminal ==
  \A k \in DOMAIN last.pre :
    (last.pre[k].status = "done" /\ frontier[k].status # "done") =>
      (last.op = "enqueue" /\ last.force /\ last.key = k)

C3_Witness ==
  /\ last.op = "enqueue" /\ ~last.force /\ Touched
  /\ last.pre[last.key].status = "done"
  /\ last.pre[last.key].attempts > 0
  /\ frontier[last.key].status = "done"

\* C4 (SpecStore): a non-forced enqueue leaves the status and the attempts of an
\* entry that is done or processing unchanged; for an entry that is queued or failed
\* and for a URL without entry it leaves status queued and last_error null.
C4_NonForcedEnqueue ==
  (last.op = "enqueue" /\ ~last.force /\ last.key # <<>>) =>
    IF Touched /\ last.pre[last.key].status \in {"done", "processing"}
    THEN /\ frontier[last.key].status = last.pre[last.key].status
         /\ frontier[last.key].attempts = last.pre[last.key].attempts
    ELSE /\ frontier[last.key].status = "queued"
         /\ frontier[last.key].last_error = Null

C4_Witness ==
  /\ last.op = "enqueue" /\ ~last.force /\ Touched
  /\ last.pre[last.key].status = "failed"
  /\ last.pre[last.key].last_error # Null
  /\ frontier[last.key].status = "queued"

\* C5 (Spec): a forced enqueue of an existing entry leaves it queued with attempts 0
\* and last_error null, whatever its status and attempts were.
C5_ForcedEnqueueResets ==
  (last.op = "enqueue" /\ last.force /\ Touched) =>
    /\ frontier[last.key].status = "queued"
    /\ frontier[last.key].attempts = 0
    /\ frontier[last.key].last_error = Null

\* C6 (SpecStore): after reconcile_for_resume every entry that was processing or
\* failed is queued with last_error null, every other entry is unchanged, and the
\* count returned is the number of entries that were processing or failed.
C6_Reconcile ==
  last.op = "reconcile" =>
    /\ DOMAIN frontier = DOMAIN last.pre
    /\ \A k \in DOMAIN last.pre :
         IF last.pre[k].status \in {"processing", "failed"}
         THEN frontier[k].status = "queued" /\ frontier[k].last_error = Null
         ELSE frontier[k] = last.pre[k]
    /\ last.count = Cardinality({k \in DOMAIN last.pre :
                                   last.pre[k].status \in {"processing", "failed"}})

C6_Witness ==
  /\ last.op = "reconcile"
  /\ \E k \in DOMAIN last.pre : last.pre[k].status = "processing"
  /\ \E k \in DOMAIN last.pre : last.pre[k].status = "failed" /\ last.pre[k].last_error # Null
  /\ last.count = 2

\* C7 (SpecStore): mark_failed with an error message leaves an entry that is done
\* as it was; an entry in any other status becomes failed and its last_error is the
\* message (its first 1000 characters).
C7_MarkFailed ==
  (last.op = "mark_failed" /\ Touched) =>
    IF last.pre[last.key].status = "done"
    THEN /\ frontier[last.key].status = "done"
         /\ frontier[last.key].last_error = last.pre[last.key].last_error
    ELSE /\ frontier[last.key].status = "failed"
         /\ frontier[last.key].last_error.msg = last.err.msg
         /\ frontier[last.key].last_error.len =
              (IF last.err.len > ErrorLimit THEN ErrorLimit ELSE last.err.len)
         /\ ~frontier[last.key].last_error.null

C7_Witness ==
  /\ last.op = "mark_failed" /\ Touched
  /\ last.pre[last.key].status = "done"
  /\ frontier = last.pre

\* The effect of a claim's update on the table: the claimed row is processing with
\* one more attempt, every other row is as it was.
ClaimedRowOnly ==
  /\ last.pre[last.key].status = "queued"
  /\ frontier[last.key].status = "processing"
  /\ frontier[last.key].attempts = last.pre[last.key].attempts + 1
  /\ DOMAIN frontier = DOMAIN last.pre
  /\ \A j \in DOMAIN last.pre \ {last.key} : frontier[j] = last.pre[j]

\* C8 as stated (SpecStore): whenever a queued entry exists, claim_next selects the
\* queued entry with the oldest updated_at and makes it processing with one more
\* attempt; when none exists it returns None and changes nothing.
C8_OldestQueued ==
  /\ last.op = "claim_select" =>
       /\ frontier = last.pre
       /\ IF QueuedIn(last.pre) = {} THEN last.ret = <<>>
          ELSE /\ last.ret \in QueuedIn(last.pre)
               /\ \A j \in QueuedIn(last.pre) :
                    last.pre[last.ret].updated_at <= last.pre[j].updated_at
  /\ last.op = "claim_update" => ClaimedRowOnly

\* C8 amended (SpecStore): claim_next selects, among the queued entries that no
\* concurrent claim holds locked, one with the oldest updated_at, and makes it
\* processing with one more attempt, every other entry unchanged; when there is no
\* such entry it returns None and changes nothing.
C8_OldestUnlockedQueued ==
  /\ last.op = "claim_select" =>
       /\ frontier = last.pre
       /\ IF QueuedIn(last.pre) \ last.held = {} THEN last.ret = <<>>
          ELSE /\ last.ret \in QueuedIn(last.pre) \ last.held
               /\ \A j \in QueuedIn(last.pre) \ last.held :
                    last.pre[last.ret].updated_at <= last.pre[j].updated_at
  /\ last.op = "claim_update" => ClaimedRowOnly

C8_Witness ==
  /\ last.op = "claim_update"
  /\ \E j \in QueuedIn(last.pre) : last.pre[j].updated_at > last.pre[last.key].updated_at
  /\ frontier[last.key].attempts = 2

\* §4.1 is_in_scope, read off the canonical URL: the host is the target site and
\* the path starts with or contains an allow-listed prefix.
InScope(canonical) ==
  /\ canonical # <<>>
  /\ UrlParse(canonical).netloc = <<"www.partselect.com">>
  /\ \E a \in allowed : Contains(UrlParse(canonical).path, a)

\* C9 (Spec): every frontier entry's URL is non-empty and in scope, and an enqueue
\* of a URL that canonicalizes to empty or out of scope passes nothing to the store.
C9_ScopeContainment ==
  /\ \A k \in DOMAIN frontier : InScope(k)
  /\ (last.op = "enqueue" /\ ~InScope(canonicalize_url(last.url))) =>
        (last.key = <<>> /\ frontier = last.pre)

C9_Witness ==
  /\ last.op = "enqueue" /\ last.who \in Workers
  /\ last.url = U_evil
  /\ last.key = <<>>
  /\ DOMAIN frontier # {}

\* C10 (Spec): the pages fetched in one run never exceed max_pages.
C10_PageCap == fetched <= max_pages

\* A step in which worker w leaves its loop although the deadline has not passed and
\* the page cap is not reached: the `return` of the idle branch.
IdleExit(w) ==
  /\ workers[w].pc = "loop"
  /\ workers'[w].pc = "exited"
  /\ ~deadline
  /\ fetched < max_pages

\* C11 (Spec): a worker exits for idleness only when the frontier has no pending
\* entry (none queued, none processing) and it has seen that on at least two
\* consecutive idle polls.
C11_IdleExit ==
  [][\A w \in Workers :
       IdleExit(w) => (count_frontier_pending(frontier) = 0 /\ workers'[w].idle_ticks >= 2)]_vars

\* C12 (Spec): when a new run has started after a run that stopped abruptly, every
\* in-scope URL linked from a page whose frontier entry is done has a frontier entry.
C12_NoLostLinks ==
  (run > 1 /\ crawl_runs[run - 1].status = "running" /\ phase \in {"reconcile", "seed"}) =>
    \A k \in DOMAIN linked :
      (k \in DOMAIN frontier /\ frontier[k].status = "done") => linked[k] \subseteq DOMAIN frontier

\* The attempts of the returned crawl_best call that succeeded.
Succeeded == {i \in 1..Len(CRAWL_CONFIGS) : ~arun[i].raises /\ arun[i].success}

\* C13 (SpecFetch): crawl_best runs every strategy in the declared order, and when
\* at least one attempt succeeded it returns the successful attempt with the largest
\* word count, the earliest one on ties.
C13_BestSuccessful ==
  fetch.returned =>
    /\ fetch.tried = CRAWL_CONFIGS
    /\ fetch.best = crawl_best(arun)
    /\ Succeeded # {} =>
         \E i \in Succeeded :
           /\ \A j \in Succeeded : arun[j].word_count <= arun[i].word_count
           /\ \A j \in Succeeded : j < i => arun[j].word_count < arun[i].word_count
           /\ fetch.best = Candidate(CRAWL_CONFIGS[i], arun[i])

\* Worker w has left its iteration by an exception of the failure branch.
FailureRaised(w) == workers[w].pc = "raised" /\ ~workers[w].best.success
\* Worker w has left its iteration by an exception of persist_parsed_page.
PersistRaised(w) == workers[w].pc = "raised" /\ workers[w].best.success

\* C14 (Spec): when every strategy failed, the worker writes the page record with
\* status failed and the frontier entry becomes failed.
C14_AllFailedIsFetchFailure ==
  /\ \A w \in Workers :
       (workers[w].pc = "mark_failed" \/ FailureRaised(w)) =>
          /\ workers[w].url \in DOMAIN pages
          /\ pages[workers[w].url].status = "failed"
  /\ last.op \in {"mark_failed", "mark_failed_raised"} => frontier[last.key].status = "failed"

\* C15 (Spec): a failed fetch never fails the run: no worker leaves its iteration by
\* an exception of the failure branch, and a CrawlRun is failed only when
\* persist_parsed_page raised.
C15_FetchFailureNotFatal ==
  /\ \A w \in Workers : ~FailureRaised(w)
  /\ crawl_runs[run].status = "failed" => \E w \in Workers : PersistRaised(w)

\* C16 (Spec): when persist_parsed_page raised for a URL, the URL's frontier entry
\* stays processing and the CrawlRun is never closed as done; reconcile returns
\* every processing entry to queued.
C16_PersistErrorRecoverable ==
  /\ \A w \in Workers :
       PersistRaised(w) =>
          /\ frontier[workers[w].url].status = "processing"
          /\ crawl_runs[run].status \in {"running", "failed"}
          /\ phase \in {"failed", "interrupted"} \/ crawl_runs[run].status = "running"
  /\ last.op = "reconcile" =>
       \A k \in DOMAIN last.pre : last.pre[k].status = "processing" => frontier[k].status = "queued"

\* The run after one that persist_parsed_page failed: the page record of the URL is
\* parsed, its entry was left processing, and reconcile has queued it again.
C16_Witness ==
  /\ run = 2
  /\ crawl_runs[1].status = "failed"
  /\ last.op = "reconcile"
  /\ \E k \in DOMAIN last.pre :
       /\ last.pre[k].status = "processing"
       /\ k \in DOMAIN pages /\ pages[k].status = "parsed"
       /\ frontier[k].status = "queued"

\* C17 (Spec): when an invocation has ended, by returning or by an exception, its
\* CrawlRun has been closed exactly once, all workers have stopped and the status is
\* done if the invocation returned and failed if an exception left the run.
C17_RunClosedOnce ==
  /\ \A r \in DOMAIN crawl_runs :
       /\ crawl_runs[r].closes <= 1
       /\ crawl_runs[r].status = "running" <=> crawl_runs[r].closes = 0
  /\ phase \in {"done", "failed", "interrupted"} =>
       /\ \A w \in Workers : workers[w].pc \in {"exited", "raised", "cancelled"}
       /\ crawl_runs[run].closes = 1
       /\ crawl_runs[run].status = (IF phase = "done" THEN "done" ELSE "failed")
  /\ phase = "done" => \A w \in Workers : workers[w].pc = "exited"

\* The rows of a table without their updated_at column.
Columns(t) ==
  [k \in DOMAIN t |-> [c \in DOMAIN t[k] \ {"updated_at"} |-> t[k][c]]]

\* The six entity tables without updated_at.
Content(e) ==
  [models |-> Columns(e.models), parts |-> Columns(e.parts),
   model_parts |-> Columns(e.model_parts), model_symptoms |-> Columns(e.model_symptoms),
   model_media |-> Columns(e.model_media), model_qa |-> Columns(e.model_qa)]

\* persist_parsed_page has just been called a second time in a row with the same
\* page and source_url.
PersistedTwice ==
  /\ persisted.n = 2
  /\ persisted.page = persisted.prev_page
  /\ persisted.source_url = persisted.prev_source_url

\* C18: calling persist_parsed_page twice with the same page and source URL leaves
\* the six entity tables with the rows the first call left: no row is added and no
\* column other than updated_at changes.
C18_IdempotentPersist ==
  PersistedTwice => Content(entities) = Content(persisted.pre)

\* A model page with a part, a symptom, a video and a question was persisted twice in
\* a row over a store that already held rows; every table has a row re-written.
C18_Witness ==
  /\ PersistedTwice
  /\ persisted.page.model # <<>>
  /\ persisted.page.model[1].parts # <<>>
  /\ \A tab \in DOMAIN entities : DOMAIN entities[tab] # {}
  /\ \E k \in DOMAIN entities.models : entities.models[k].updated_at # persisted.pre.models[k].updated_at
  /\ Cardinality(DOMAIN entities.models) = 2

\* C19: when a model or a part that already has a row is persisted again, an
\* attribute that was non-null (brand; name, manufacturer_part_number, price_value)
\* is never null afterwards.
C19_CoalesceMerge ==
  persisted.n >= 1 =>
    /\ \A k \in DOMAIN persisted.pre.models :
          persisted.pre.models[k].brand # <<>> => entities.models[k].brand # <<>>
    /\ \A k \in DOMAIN persisted.pre.parts :
          /\ persisted.pre.parts[k].name # <<>> => entities.parts[k].name # <<>>
          /\ persisted.pre.parts[k].manufacturer_part_number # <<>>
               => entities.parts[k].manufacturer_part_number # <<>>
          /\ persisted.pre.parts[k].price_value # <<>> => entities.parts[k].price_value # <<>>

\* run() has enqueued every seed of cfg.seed_urls and has not yet created the workers.
Seeded == phase = "seed" /\ seedIdx > Len(seed_urls)

\* C20: after the seeding phase every configured seed URL (one that is a URL at all)
\* has a Frontier Store entry, queued when seeding is forced and queued, processing
\* or done otherwise; the seeds are enqueued with force exactly when
\* requeue_seeds_on_start is configured.
C20_SeedsEnqueued ==
  /\ Seeded =>
        \A i \in 1..Len(seed_urls) :
          LET key == canonicalize_url(seed_urls[i]) IN
          key # <<>> =>
            /\ key \in DOMAIN frontier
            /\ frontier[key].status \in (IF requeue THEN {"queued"} ELSE {"queued", "processing", "done"})
  /\ (phase = "seed" /\ seedIdx > 1 /\ last.op = "enqueue" /\ last.who = 0) => last.force = requeue

\* parse_page(url, ...) has neither model nor part, whatever the document: url is a
\* repair/other page, or a model/part page whose number pattern does not match.
Miss(url) == \A doc \in Docs : parse_page(url, doc) = NoPage

\* C21: a fetched page without typed result is not an error. When the worker holding
\* it reaches persist_parsed_page its page record is parsed; the call writes no
\* entity row and does not raise; mark_frontier_done makes the entry done; and, in a
\* run nobody stopped, once the worker has left the discovery loop every in-scope
\* link of the page has a frontier entry.
C21_MissIsNotAnError ==
  [][\A w \in Workers :
       LET me == workers[w] IN
       /\ (me.pc = "persist" /\ Miss(me.url)) =>
             /\ me.url \in DOMAIN pages /\ pages[me.url].status = "parsed"
             /\ (workers'[w] # me /\ phase' = "crawl") =>
                   (workers'[w].pc = "mark_done" /\ entities' = entities)
       /\ (me.pc = "mark_done" /\ Miss(me.url) /\ workers'[w] # me /\ phase' = "crawl") =>
             (frontier'[me.url].status = "done" /\ phase' = "crawl")
       /\ (run = 1 /\ phase' = "crawl" /\ \A v \in Workers : workers'[v].pc # "discover") =>
             \A k \in DOMAIN linked' :
               (Miss(k) /\ k \in DOMAIN frontier' /\ frontier'[k].status = "done")
                 => linked'[k] \subseteq DOMAIN frontier'
  ]_vars

\* A page whose URL classifies as part without matching the part-number pattern was
\* fetched and parsed and is done, its link has just been enqueued by the worker, and
\* no entity row exists.
C21_Witness ==
  /\ run = 1 /\ phase = "crawl"
  /\ \A v \in Workers : workers[v].pc # "discover"
  /\ \E k \in DOMAIN linked :
       /\ Miss(k) /\ k \in DOMAIN frontier /\ frontier[k].status = "done"
       /\ classify_page(k) = "part"
       /\ pages[k].status = "parsed"
       /\ linked[k] # {}
       /\ last.op = "enqueue" /\ last.who \in Workers /\ last.key \in linked[k]
       /\ last.key \notin DOMAIN last.pre
  /\ entities = NoEntities

\* Index of the first link of part_links carrying part number ps.
FirstLink(part_links, ps) ==
  CHOOSE i \in 1..Len(part_links) :
    /\ PartOfLink(part_links[i]).partselect_number = ps
    /\ \A j \in 1..(i - 1) : PartOfLink(part_links[j]).partselect_number # ps

\* C22: the parts list of a parsed model page has one ParsedPart per distinct part
\* number, in order of first appearance, and each is the one built from the first
\* link carrying that number.
C22_DedupKeepsFirst ==
  applied.fn = "parse_model_page" =>
    LET part_links == applied.arg
        parts == applied.ret[1].parts
        built == [i \in 1..Len(part_links) |-> PartOfLink(part_links[i])]
    IN  /\ [n \in 1..Len(parts) |-> parts[n].partselect_number] = PartNumbers(built)
        /\ \A n \in 1..Len(parts) :
              parts[n] = built[FirstLink(part_links, parts[n].partselect_number)]

\* urlparse finds no host in the stripped input.
Hostless(url) == UrlParse(Strip(url)).netloc = <<>>

\* C23: canonicalize_url returns the empty string for every input without a host, and
\* enqueue drops every such input.
C23_HostlessIsEmpty ==
  (applied.fn = "canonicalize_url" /\ Hostless(applied.arg)) =>
    (applied.ret = <<>> /\ EnqueueKey(applied.arg) = <<>>)

\* C27: _normalize_partselect_live_args sets max_pages to 3 for every requested
\* value, above it or below it.
C27_MaxPagesIsThree ==
  (/\ applied.fn = "normalize_partselect_live_args"
   /\ applied.arg[1].max_pages \notin {<<>>, <<NotInt>>})
    => applied.ret.max_pages = <<3>>

\* The part identifier a query names: its first word, in upper case.
PartIdOf(query) == IF Strip(query) = <<>> THEN "" ELSE ArgUpperTok(Strip(query)[1])

\* C28: two argument sets with the same url and model_number whose queries name the
\* same part identifier, one bare and one followed by more words, have the same
\* _crawl_call_key.
C28_KeyIdentifiesTarget ==
  applied.fn = "crawl_call_key" =>
    \A other \in CrawlArgs :
      (/\ other.url = applied.arg.url
       /\ other.model_number = applied.arg.model_number
       /\ applied.arg.query # <<>> /\ other.query # <<>>
       /\ PartIdOf(other.query) = PartIdOf(applied.arg.query))
        => crawl_call_key(other) = applied.ret

\* run_stream is over: the generator returned, or an exception left it.
AgentOver == agent.pc \in {"returned", "raised"}

\* C24: whatever the LLM responds, run_stream ends having emitted exactly one done
\* event, as its last event.
C24_OneDoneLast ==
  /\ agent.done_events <= 1
  /\ AgentOver => (agent.done_events = 1 /\ agent.last_event = "done")

\* C25: a toolbox operation is invoked only after an LLM response carried a tool
\* call; a run whose LLM responses carry none ends without any invocation.
C25_NoForcedLookup ==
  /\ agent.invoked => agent.requested
  /\ (agent.pc = "returned" /\ ~agent.requested) =>
        (~agent.invoked /\ agent.tool_names_used = {} /\ agent.n_calls <= 1)

\* A message asking for a live check was answered by the LLM without tool calls, and
\* the run has emitted its done event.
C25_Witness ==
  /\ agent.pc = "returned"
  /\ agent.message.live
  /\ ~agent.requested
  /\ agent.done.status = ""

\* C26 as stated: once check_part_compatibility returned compatible=true, the done
\* event reports a confidence of at least 0.9.
C26_ConfirmedIsConfident ==
  (agent.pc = "returned" /\ agent.confirmed_once) => agent.done.confidence >= 90

\* C26 amended: the done event of a run that was not cancelled reports a confidence
\* of at least 0.9 when the last check_part_compatibility result was compatible=true,
\* no live crawl was blocked and the last live crawl, if any, returned pages.
C26_LastConfirmedUnblocked ==
  (/\ agent.pc = "returned"
   /\ agent.done.status # "cancelled"
   /\ agent.compatibility_confirmed
   /\ ~agent.live_blocked /\ ~agent.live_empty) => agent.done.confidence >= 90

\* A run in which the compatibility check succeeded and a live crawl returned pages
\* has ended with its done event.
C26_Witness ==
  /\ agent.pc = "returned"
  /\ agent.done.status # "cancelled"
  /\ agent.compatibility_confirmed
  /\ "crawl_partselect_live" \in agent.tool_names_used
  /\ ~agent.live_blocked /\ ~agent.live_empty
  /\ agent.done.confidence = 90

\* The URLs the workers hold: claimed, and not yet marked done or failed.
InFlight == {workers[w].url : w \in Workers} \ {<<>>}

\* The page record of the URL worker w holds has the given status.
PageRecorded(w, status) ==
  LET k == canonicalize_url(workers[w].url) IN
  k \in DOMAIN pages /\ pages[k].status = status

\* C29: a worker reaches mark_frontier_failed with the failed page record written,
\* and persist_parsed_page and mark_frontier_done only after a successful fetch with
\* the parsed page record written; while the workers run, the processing entries are
\* exactly the URLs held by workers inside an iteration (a worker at the top of its
\* loop, asleep or exited holds none); and when the run has ended without an
\* exception no entry of the frontier is processing.
C29_EntrySettledBeforeNext ==
  /\ \A w \in Workers :
        /\ workers[w].pc = "mark_failed" => (~workers[w].best.success /\ PageRecorded(w, "failed"))
        /\ workers[w].pc \in {"persist", "mark_done"} =>
              (workers[w].best.success /\ PageRecorded(w, "parsed"))
        /\ workers[w].pc \in {"loop", "sleep", "exited", "discover"} => workers[w].url = <<>>
  /\ phase = "crawl" => Keys(frontier, {"processing"}) = InFlight
  /\ phase = "done" => Keys(frontier, {"processing"}) = {}

\* A run has ended by itself after one worker marked an entry done and one marked an
\* entry failed.
C29_Witness ==
  /\ phase = "done"
  /\ \E k \in DOMAIN frontier : frontier[k].status = "done" /\ frontier[k].last_run_id = run
  /\ \E k \in DOMAIN frontier : frontier[k].status = "failed" /\ frontier[k].last_run_id = run

\* C30: the invocation ends: every worker has returned and the CrawlRun is closed as
\* done, or a worker's exception has closed it as failed.
C30_RunEnds == <>(phase \in {"done", "failed"})

\* A run has ended for idleness alone, below the page cap and before the deadline,
\* after it claimed an entry a second time.
C30_Witness ==
  /\ phase = "done"
  /\ ~deadline
  /\ fetched < LivePages
  /\ \A w \in Workers : workers[w].pc = "exited"
  /\ \E k \in DOMAIN frontier : frontier[k].attempts >= 2

\* C31: when the run has ended with every worker returned for idleness (the deadline
\* not passed, the page cap not reached, no exception), no entry of the frontier is
\* queued or processing, and every in-scope URL linked from a page of the run has an
\* entry that is done or failed.
C31_DrainedWhenIdle ==
  (phase = "done" /\ ~deadline /\ fetched < LivePages) =>
    /\ Keys(frontier, {"queued", "processing"}) = {}
    /\ \A k \in DOMAIN linked :
          \A d \in linked[k] : d \in DOMAIN frontier /\ frontier[d].status \in {"done", "failed"}

\* A run has ended for idleness after a page's link queued a failed entry again and a
\* link added a new entry; both were crawled.
C31_Witness ==
  /\ phase = "done" /\ ~deadline /\ fetched < LivePages
  /\ \E k \in DOMAIN frontier : frontier[k].attempts >= 2
  /\ \E k \in DOMAIN linked : EnqueueKey(U_model) \in linked[k]
  /\ fetched >= 3

\* C32: in a run that started on an empty frontier no entry is claimed a second time:
\* attempts counts the claims of an entry.
C32_ClaimedOnce == \A k \in DOMAIN frontier : frontier[k].attempts <= 1

\* C33: with invocations running at the same time on one store, no URL is held by
\* the workers of two invocations at once.
C33_HeldByOne ==
  \A i, j \in Workers :
    (i # j /\ workers[i].pc = "fetch" /\ workers[j].pc = "fetch") => workers[i].url # workers[j].url

C35_CanonicalizeIdempotent ==
  applied.fn = "canonicalize_url" =>
    /\ canonicalize_url(applied.ret) = applied.ret
    /\ EnqueueKey(applied.arg) # <<>> =>
          canonicalize_url(EnqueueKey(applied.arg)) = EnqueueKey(applied.arg)

\* C36: one run_stream makes at most step_limit LLM decision calls; when the limit
\* stops the loop, the last response still asked for tools, the loop leaves with the
\* fallback text and no draft, and the stream returns after exactly one done event.
C36_StepLimit ==
  /\ agent.n_calls <= step_limit
  /\ agent.exit_status = "LimitsExceeded" =>
       /\ agent.n_calls = step_limit
       /\ agent.requested /\ agent.final_text /\ ~agent.draft_answer
       /\ agent.pc \in {"final", "returned"}
       /\ agent.pc = "returned" => (agent.last_event = "done" /\ agent.done_events = 1)

\* A run that used all its LLM calls was stopped by the limit and returned with its
\* own done event.
C36_Witness ==
  /\ agent.pc = "returned" /\ agent.exit_status = "LimitsExceeded"
  /\ agent.n_calls = step_limit /\ agent.done.status = ""

\* The crawl calls of the run so far end with two calls that added no citation URL.
TwoWithoutNew ==
  LET c == agent.crawls
  IN  Len(c) >= 2 /\ ~c[Len(c)].new /\ ~c[Len(c) - 1].new

\* The crawl calls of the run so far end with a call key and its two repetitions.
SameKeyRepeatedTwice ==
  LET c == agent.crawls
  IN  Len(c) >= 3 /\ c[Len(c)].key = c[Len(c) - 1].key /\ c[Len(c) - 1].key = c[Len(c) - 2].key

\* C37: once the last two crawl calls added no new citation URL, or a crawl call key
\* was repeated twice in a row, the loop has ended with the fallback text and the
\* tool calls still pending are dropped; from then on the run makes no LLM decision
\* call and no tool call.
C37_NoProgressStops ==
  [][ /\ (TwoWithoutNew \/ SameKeyRepeatedTwice) =>
            /\ agent.pc \in {"final", "returned"}
            /\ agent.exit_status = "Submitted" /\ agent.final_text /\ ~agent.draft_answer
            /\ agent.todo = <<>>
      /\ (TwoWithoutNew \/ SameKeyRepeatedTwice) =>
            /\ agent'.n_calls = agent.n_calls
            /\ agent'.tool_names_used = agent.tool_names_used
            /\ agent'.crawls = agent.crawls
            /\ agent'.pc \in {"final", "returned"} ]_vars

\* A run ended by the third crawl call with one key, the two calls before it having
\* added citation URLs, and returned with its done event.
C37_Witness ==
  /\ agent.pc = "returned" /\ agent.done.status = "" /\ agent.exit_status = "Submitted"
  /\ SameKeyRepeatedTwice /\ ~TwoWithoutNew

\* C38: once cancel_run was called for a running stream, the next cancellation check
\* ends the stream with its only done event, of status cancelled, and no LLM call or
\* tool is run in between; when a stream has ended, its run_id is no longer in
\* _cancelled_runs, and a stream ends as cancelled only if cancel_run was called
\* while it ran.
C38_CancelEndsRun ==
  [][ /\ (agent.cancelled /\ agent.pc \in {"loop", "tools", "final"}) =>
           /\ agent'.pc = "returned" /\ agent'.done.status = "cancelled"
           /\ agent'.done_events = 1 /\ agent'.last_event = "done"
           /\ agent'.tool_names_used = agent.tool_names_used
           /\ agent'.n_calls = agent.n_calls
      /\ agent'.pc \in {"returned", "raised"} => ~agent'.cancelled
      /\ (agent'.pc = "returned" /\ agent'.done.status = "cancelled") => agent'.cancel_called
    ]_vars

====
